---------------------------- MODULE Spec2Model ----------------------------
(***************************************************************************)
(* A model of the pull-variants command of go-vcf-parser                   *)
(* (src/cmd/pull_variants.go).                                             *)
(*                                                                         *)
(* Strings are sequences of tokens.  Where the code looks inside a string  *)
(* (region and position expressions, score values) a token is a single     *)
(* character; elsewhere a token is a separator ("\t", ";", "=", "_") or an *)
(* atomic piece of text between separators.  Splitting, trimming, joining  *)
(* and number parsing are computed on these sequences the way the code     *)
(* computes them on bytes.                                                 *)
(***************************************************************************)
EXTENDS Integers, Sequences, FiniteSets, TLC

VARIABLES
    pc,             \* position of pull_variants (the orchestrator)
    region_in,      \* the --region flag value handed to parse_region
    parsed_region,  \* parsed_region of pull_variants (a Region struct)
    anno_in,        \* the lines of the annotation file read by read_annotations
    anno_map,       \* anno_map of pull_variants (the AnnotationStore)
    vcf_read,       \* the lines of the variant stream scanned so far
    vcf_eof,        \* whether the scanner of the variant stream has reached its end
    samples,        \* samples returned by process_header_ids
    sample_str,     \* sample_str returned by process_header_ids
    out_created,    \* whether os.Create has made the output file
    out_file,       \* the lines that have reached the output file
    buf,            \* the lines held in the bufio.Writer
    wr_err,         \* the sticky error of the bufio.Writer
    p_pc,           \* position of the parse_vcf_file goroutine
    p_variant,      \* the VariantInfo the producer is sending
    w_pc,           \* position of the writeToFile goroutine
    w_variant,      \* the VariantInfo the writer has received
    ch_closed,      \* whether close(ch) has run
    wg,             \* the counter of the WaitGroup
    anno_src,       \* whether the annotation file could be opened and decompressed
    vcf_err,        \* whether the scanner of the variant stream holds a read error
    reported,       \* whether the producer has printed the scanner's read error
    store_reads,    \* history: the goroutines that have read a record of the store
    sent,           \* history: index in vcf_read of every line whose record reached "ch <- variant"
    fn_args,        \* arguments of a direct call of a helper function
    fn_ret          \* what that call returned

runVars == <<pc, region_in, parsed_region, anno_in, anno_map, vcf_read, vcf_eof, samples,
             sample_str, out_created, out_file, buf, wr_err, p_pc, p_variant,
             w_pc, w_variant, ch_closed, wg, sent, anno_src, vcf_err, reported,
             store_reads>>

fnVars == <<fn_args, fn_ret>>

vars == <<runVars, fnVars>>

-----------------------------------------------------------------------------
(* Bounds of the model. *)

\* longest region / position expression, in characters
MaxStrLen == 5

\* most lines in an annotation file
MaxAnnoLines == 3

\* most lines in the variant stream
MaxLines == 3

\* most values listed in an allele-frequency sub-field
MaxMafValues == 2

\* longest score of a samples file, in characters
MaxScoreLen == 4

\* lines the bufio.Writer holds before a write makes it flush to the file
BufLines == 2

\* rows of a calls file handed to view-sample-variants
MaxCallRows == 1

\* characters of a --sample-exclusion-string value
MaxExclLen == 2

-----------------------------------------------------------------------------
(* Strings. *)

Digits == {"0", "1", "2", "3", "4", "5", "6", "7", "8", "9"}

\* the value of a decimal digit character
DigitVal(c) ==
    CASE c = "0" -> 0 [] c = "1" -> 1 [] c = "2" -> 2 [] c = "3" -> 3
      [] c = "4" -> 4 [] c = "5" -> 5 [] c = "6" -> 6 [] c = "7" -> 7
      [] c = "8" -> 8 [] c = "9" -> 9

\* all strings over alphabet A of length 0..n
StringsUpTo(A, n) == UNION {[1..k -> A] : k \in 0..n}

\* s[from..to] (1-based, inclusive); empty when from > to
Slice(s, from, to) == [i \in 1..(to - from + 1) |-> s[from + i - 1]]

\* position of the first token of s at or after i that is in seps, 0 when
\* there is none
RECURSIVE FirstSep(_, _, _)
FirstSep(s, seps, i) ==
    IF i > Len(s) THEN 0
    ELSE IF s[i] \in seps THEN i
    ELSE FirstSep(s, seps, i + 1)

\* the pieces of s from position from on
RECURSIVE SplitFrom(_, _, _)
SplitFrom(s, seps, from) ==
    LET i == FirstSep(s, seps, from)
    IN  IF i = 0 THEN <<Slice(s, from, Len(s))>>
        ELSE <<Slice(s, from, i - 1)>> \o SplitFrom(s, seps, i + 1)

\* strings.Split(s, sep) for a one-token separator, and regexp.Split(s, -1)
\* for a character class: the pieces between separators, empty pieces kept,
\* one piece (s itself) when s holds no separator.
SplitOn(s, seps) == SplitFrom(s, seps, 1)

\* strconv.Atoi on a string of the model's alphabet: a non-empty run of
\* decimal digits converts; anything else is an error and the value is 0.
RECURSIVE DecimalValue(_)
DecimalValue(s) ==
    IF Len(s) = 0 THEN 0
    ELSE 10 * DecimalValue(Slice(s, 1, Len(s) - 1)) + DigitVal(s[Len(s)])

Atoi(s) ==
    IF Len(s) > 0 /\ \A i \in 1..Len(s) : s[i] \in Digits
    THEN [val |-> DecimalValue(s), err |-> FALSE]
    ELSE [val |-> 0, err |-> TRUE]

\* the separators of the pattern [:|-] used for regions and positions
RegionSeps == {":", "|", "-"}

-----------------------------------------------------------------------------
(* Region parsing. *)

\* the zero value of the Region struct
ZeroRegion == [chrom |-> <<>>, start |-> 0, end |-> 0]

\* the comparison that rejects a region: start_int >= end_int
region_order_mutant(start_int, end_int) == start_int > end_int

region_order_error(start_int, end_int) == start_int >= end_int

\* parse_region: the Region and the list of errors it returns; panic is the
\* index-out-of-range of region_split[2] on a two-part expression.
parse_region(region_str) ==
    LET region_split == SplitOn(region_str, RegionSeps)
    IN  IF Len(region_split) = 1
        THEN [region |-> ZeroRegion, err |-> <<"split">>, panic |-> FALSE]
        ELSE IF Len(region_split) = 2
        THEN [region |-> ZeroRegion, err |-> <<>>, panic |-> TRUE]
        ELSE LET s == Atoi(region_split[2])
                 e == Atoi(region_split[3])
                 err == (IF s.err THEN <<"start">> ELSE <<>>)
                        \o (IF e.err THEN <<"end">> ELSE <<>>)
                        \o (IF region_order_error(s.val, e.val)
                            THEN <<"order">> ELSE <<>>)
             IN  [region |-> [chrom |-> region_split[1],
                              start |-> s.val, end |-> e.val],
                  err |-> err, panic |-> FALSE]

\* check_region: whether an annotation row's position is kept for the region,
\* and the conversion errors.
\* line 303: start <= pos && pos <= end
within_region_mutant(pos, start, end) == start < pos /\ pos <= end

within_region(pos, start, end) == start <= pos /\ pos <= end

check_region(anno_pos, start, end) ==
    LET split_pos == SplitOn(anno_pos, RegionSeps)
        start_pos_str == IF Len(split_pos) = 1 THEN split_pos[1] ELSE split_pos[2]
        end_pos_str == IF Len(split_pos) <= 2 THEN <<>> ELSE split_pos[3]
        first == Atoi(start_pos_str)
        second == Atoi(end_pos_str)
        start_pos == first.val
        end_pos == second.val
        conversion_err ==
            (IF first.err THEN <<"start">> ELSE <<>>)
            \o (IF end_pos_str # <<>> /\ second.err THEN <<"end">> ELSE <<>>)
    IN  [in_region |-> within_region(start_pos, start, end)
                       \/ (end_pos # 0 /\ within_region(end_pos, start, end)),
         err |-> conversion_err]

-----------------------------------------------------------------------------
(* Lines and fields. *)

Whitespace == {"\t", " "}

\* strings.TrimSpace: leading and trailing white space removed
RECURSIVE TrimSpace(_)
TrimSpace(s) ==
    IF Len(s) = 0 THEN s
    ELSE IF s[1] \in Whitespace THEN TrimSpace(Tail(s))
    ELSE IF s[Len(s)] \in Whitespace THEN TrimSpace(Slice(s, 1, Len(s) - 1))
    ELSE s

\* strings.Join(fields, sep)
RECURSIVE Join(_, _)
Join(fields, sep) ==
    IF Len(fields) = 0 THEN <<>>
    ELSE IF Len(fields) = 1 THEN fields[1]
    ELSE fields[1] \o <<sep>> \o Join(Tail(fields), sep)

\* strings.Split(strings.TrimSpace(line), "\t")
Fields(line) == SplitOn(TrimSpace(line), {"\t"})

\* strings.Contains(line, "##"), strings.Contains(line, "#") and
\* strings.Contains(line, "#CHROM"): the tokens that hold a hash mark are
\* "##", "#" and "#CHROM".
ContainsDoubleHash(line) == \E i \in 1..Len(line) : line[i] = "##"

ContainsHash(line) == \E i \in 1..Len(line) : line[i] \in {"#", "##", "#CHROM"}

ContainsChrom(line) == \E i \in 1..Len(line) : line[i] = "#CHROM"

\* a Go map as a function; the lookup m[k] with its ok flag is k \in DOMAIN m
EmptyMap == <<>>

Put(m, k, v) == (k :> v) @@ m

-----------------------------------------------------------------------------
(* The annotation store. *)

\* load_column_mappings: column name -> 0-based index, the last one winning
\* when a name is repeated
load_column_mappings(line) ==
    LET column_list == Fields(line)
        names == {column_list[i] : i \in 1..Len(column_list)}
    IN  [n \in names |->
            (CHOOSE i \in 1..Len(column_list) :
                /\ column_list[i] = n
                /\ \A j \in 1..Len(column_list) : column_list[j] = n => j <= i) - 1]

\* whether read_annotations goes on to store a data row after check_region:
\* it leaves the row out only when the row is out of the region and the
\* position converted without error; a conversion error is printed and the
\* row is stored all the same.
row_is_stored(checked) == ~(~checked.in_region /\ checked.err = <<>>)

\* the text appended to a column's builder for a later row of the same key
append_value(value) == <<";">> \o value

\* lines 365-370: a later row of a stored key; every requested column that
\* the current mapping knows gets ";" + value appended to its builder.  The
\* builder of a column the stored record lacks is a nil pointer, and writing
\* to it panics; so does a column index past the end of the row.
RECURSIVE append_row(_, _, _, _, _)
append_row(cols_to_grab, i, column_mappings, split_line, variant_annotations) ==
    IF i > Len(cols_to_grab) THEN [panic |-> FALSE, record |-> variant_annotations]
    ELSE LET col == cols_to_grab[i]
         IN  IF col \notin DOMAIN column_mappings
             THEN append_row(cols_to_grab, i + 1, column_mappings, split_line,
                             variant_annotations)
             ELSE IF column_mappings[col] + 1 > Len(split_line)
                     \/ col \notin DOMAIN variant_annotations
             THEN [panic |-> TRUE, record |-> variant_annotations]
             ELSE append_row(cols_to_grab, i + 1, column_mappings, split_line,
                     [variant_annotations EXCEPT ![col] =
                         @ \o append_value(split_line[column_mappings[col] + 1])])

\* lines 374-382: the first row of a key; a fresh record with one builder per
\* requested column that the current mapping knows.
RECURSIVE create_row(_, _, _, _, _)
create_row(cols_to_grab, i, column_mappings, split_line, variant_annos) ==
    IF i > Len(cols_to_grab) THEN [panic |-> FALSE, record |-> variant_annos]
    ELSE LET col == cols_to_grab[i]
         IN  IF col \notin DOMAIN column_mappings
             THEN create_row(cols_to_grab, i + 1, column_mappings, split_line,
                             variant_annos)
             ELSE IF column_mappings[col] + 1 > Len(split_line)
             THEN [panic |-> TRUE, record |-> variant_annos]
             ELSE create_row(cols_to_grab, i + 1, column_mappings, split_line,
                     Put(variant_annos, col, split_line[column_mappings[col] + 1]))

\* one data row of read_annotations (lines 354-383): the store after the row,
\* or a panic
read_annotation_row(cur_line, cols_to_grab, region, column_mappings, annotations) ==
    LET split_line == Fields(cur_line)
    IN  IF Len(split_line) < 2 THEN [panic |-> TRUE, annotations |-> annotations]
        ELSE
        LET checked == check_region(split_line[2], region.start, region.end)
            key == split_line[1]
            r == IF key \in DOMAIN annotations
                 THEN append_row(cols_to_grab, 1, column_mappings, split_line,
                                 annotations[key])
                 ELSE create_row(cols_to_grab, 1, column_mappings, split_line, EmptyMap)
        IN  IF ~row_is_stored(checked)
            THEN [panic |-> FALSE, annotations |-> annotations]
            ELSE IF r.panic THEN [panic |-> TRUE, annotations |-> annotations]
            ELSE [panic |-> FALSE, annotations |-> Put(annotations, key, r.record)]

\* the scan loop of read_annotations (lines 337-385) from line i on
RECURSIVE scan_annotations(_, _, _, _, _, _)
scan_annotations(lines, i, cols_to_grab, region, column_mappings, annotations) ==
    IF i > Len(lines) THEN [panic |-> FALSE, annotations |-> annotations]
    ELSE IF ContainsDoubleHash(lines[i])
    THEN scan_annotations(lines, i + 1, cols_to_grab, region, column_mappings, annotations)
    ELSE IF ContainsHash(lines[i])
    THEN scan_annotations(lines, i + 1, cols_to_grab, region,
                          load_column_mappings(lines[i]), annotations)
    ELSE LET r == read_annotation_row(lines[i], cols_to_grab, region,
                                      column_mappings, annotations)
         IN  IF r.panic THEN r
             ELSE scan_annotations(lines, i + 1, cols_to_grab, region,
                                   column_mappings, r.annotations)

\* lines 314-328: the ways the annotation source can be: readable, missing
\* (os.Open fails) or not gzip data (gzip.NewReader fails).  os.Open or
\* gzip.NewReader failing only sets err; the function goes on, and in both
\* cases gzip.NewReader has returned a nil reader.
AnnoSources == {"ok", "no_file", "not_gzip"}

open_annotations(src) ==
    [err |-> IF src = "ok" THEN "nil" ELSE "decompress",
     reader_nil |-> src # "ok"]

\* lines 386-389: zero annotations after the pass is an error
no_annotations_mutant(annotations) == "nil"

no_annotations_error(annotations) ==
    IF annotations = EmptyMap THEN "no annotations" ELSE "nil"

\* read_annotations: the store and the error it returns
read_annotations(lines, cols_to_grab, region) ==
    LET r == scan_annotations(lines, 1, cols_to_grab, region, EmptyMap, EmptyMap)
    IN  [panic |-> r.panic,
         annotations |-> r.annotations,
         err |-> no_annotations_error(r.annotations)]

-----------------------------------------------------------------------------
(* Allele frequencies. *)

\* The decimal texts the model feeds to strconv.ParseFloat, each with its
\* exact value in tenths.  Any other text is a syntax error.
DecimalTenths ==
    [t \in {"0.0", "0.1", "0.2", "0.3", "0.4", "0.5", "0.6", "0.7", "0.8", "0.9", "1.0"} |->
        CASE t = "0.0" -> 0 [] t = "0.1" -> 1 [] t = "0.2" -> 2 [] t = "0.3" -> 3
          [] t = "0.4" -> 4 [] t = "0.5" -> 5 [] t = "0.6" -> 6 [] t = "0.7" -> 7
          [] t = "0.8" -> 8 [] t = "0.9" -> 9 [] t = "1.0" -> 10]

RECURSIVE Pow2(_)
Pow2(k) == IF k = 0 THEN 1 ELSE 2 * Pow2(k - 1)

\* the exponent k with 2^23 <= (n/10) * 2^k < 2^24, for 1 <= n <= 10
RECURSIVE MantissaShift(_, _)
MantissaShift(n, k) ==
    IF n * Pow2(k) >= 10 * Pow2(23) THEN k ELSE MantissaShift(n, k + 1)

\* the 24-bit significand of the float32 nearest to n/10: round(n * 2^k / 10),
\* ties to even
Float32Mantissa(n, k) ==
    LET num == n * Pow2(k)
        q == num \div 10
        r == num % 10
    IN  IF r > 5 \/ (r = 5 /\ q % 2 = 1) THEN q + 1 ELSE q

\* strconv.ParseFloat(maf, 32) of the decimal n/10: the nearest float32,
\* as the pair (m, k) standing for m / 2^k
ParseFloat32(n) ==
    IF n = 0 THEN [m |-> 0, k |-> 0]
    ELSE LET k == MantissaShift(n, 0)
         IN  [m |-> Float32Mantissa(n, k), k |-> k]

\* float_val <= max_freq_threshold, the threshold being the float64 nearest
\* to cap/10.  A float32 value never lies between a decimal and the float64
\* nearest to it, so the comparison is the one with cap/10 itself:
\* m / 2^k <= cap / 10.
freq_within(f, cap) == 10 * f.m <= cap * Pow2(f.k)

\* lines 71-83: the loop over maf_values[1:]
RECURSIVE scan_maf_values(_, _, _)
scan_maf_values(maf_values, i, max_freq_threshold) ==
    IF i > Len(maf_values) THEN [pass |-> FALSE, err |-> FALSE]
    ELSE LET maf == maf_values[i]
         IN  IF ~(Len(maf) = 1 /\ maf[1] \in DOMAIN DecimalTenths)
             THEN [pass |-> FALSE, err |-> TRUE]
             ELSE IF freq_within(ParseFloat32(DecimalTenths[maf[1]]), max_freq_threshold)
             THEN [pass |-> TRUE, err |-> FALSE]
             ELSE scan_maf_values(maf_values, i + 1, max_freq_threshold)

\* check_allele_freq; panic is the index-out-of-range of
\* strings.Split(token, ";")[2] on an INFO field with fewer than 3 sub-fields.
\* max_freq_threshold is in tenths.
check_allele_freq(token, max_freq_threshold) ==
    LET sub_fields == SplitOn(token, {";"})
    IN  IF Len(sub_fields) < 3
        THEN [pass |-> FALSE, err |-> FALSE, panic |-> TRUE]
        ELSE LET maf_values == SplitOn(sub_fields[3], {"="})
                 r == scan_maf_values(maf_values, 2, max_freq_threshold)
             IN  [pass |-> r.pass, err |-> r.err, panic |-> FALSE]

-----------------------------------------------------------------------------
(* Genotype calls. *)

generate_reference_set == {<<"0/0">>, <<"./.">>, <<"0/.">>, <<"./0">>, <<".">>}

parse_genotype_calls_mutant(calls, ref_calls) ==
    \A i \in 1..Len(calls) : calls[i] \notin ref_calls

\* parse_genotype_calls: some call is not a reference call
parse_genotype_calls(calls, ref_calls) ==
    \E i \in 1..Len(calls) : calls[i] \notin ref_calls

-----------------------------------------------------------------------------
(* The header of the variant stream. *)

\* map_header_ids: sample id -> 0-based position among the samples, the last
\* one winning when an id is repeated
map_header_ids(ids) ==
    [id \in {ids[i] : i \in 1..Len(ids)} |->
        (CHOOSE i \in 1..Len(ids) :
            /\ ids[i] = id
            /\ \A j \in 1..Len(ids) : ids[j] = id => j <= i) - 1]

\* lines 111-119: the loop over the sample ids of the header; it stops with
\* an error at the first id the phenotype mapping does not have
RECURSIVE header_ids(_, _, _, _)
header_ids(ids, i, pheno_map, acc_str) ==
    IF i > Len(ids) THEN [err |-> FALSE, sample_str |-> acc_str]
    ELSE IF ids[i] \in DOMAIN pheno_map
    THEN header_ids(ids, i + 1, pheno_map,
                    acc_str \o ids[i] \o <<"_">> \o pheno_map[ids[i]] \o <<"\t">>)
    ELSE [err |-> TRUE, sample_str |-> acc_str]

\* lines 116-118 and 123: how the header line ends the scan loop; with err
\* set the caller prints it and ends the run (lines 533-536)
header_outcome_mutant(has_err) == "header"

header_outcome(has_err) == IF has_err THEN "error" ELSE "header"

\* one pass of the scan loop of process_header_ids (lines 100-126) on a line:
\* "skip" (a ## line, the loop goes on), "header" (the #CHROM line was
\* processed, the loop ends without error), "error" (a sample without
\* phenotype, or a line that is no header) or "panic" (split_header[9:] on a
\* header of fewer than 9 columns)
process_header_line(line, pheno_map) ==
    IF ContainsDoubleHash(line)
    THEN [kind |-> "skip", samples |-> <<>>, sample_str |-> <<>>]
    ELSE IF ContainsChrom(line)
    THEN LET split_header == Fields(line)
         IN  IF Len(split_header) < 9
             THEN [kind |-> "panic", samples |-> <<>>, sample_str |-> <<>>]
             ELSE LET ids == Slice(split_header, 10, Len(split_header))
                      r == header_ids(ids, 1, pheno_map, <<>>)
                  IN  [kind |-> header_outcome(r.err),
                       samples |-> ids, sample_str |-> r.sample_str]
    ELSE [kind |-> "error", samples |-> <<>>, sample_str |-> <<>>]

-----------------------------------------------------------------------------
(* The filter/transform stage, one record. *)

\* a nil VariantAnnotations, and a record of the store
NilAnnotations == [nil |-> TRUE, cols |-> EmptyMap]

SomeAnnotations(m) == [nil |-> FALSE, cols |-> m]

NoVariant == [VariantID |-> <<>>, InfoFields |-> <<>>, Calls |-> <<>>,
              Annotations |-> NilAnnotations]

\* lines 157-162: the calls of the samples, in the order of samples
RECURSIVE call_string(_, _, _, _)
call_string(sample_list, i, sample_indices, split_line) ==
    IF i > Len(sample_list) THEN [panic |-> FALSE, str |-> <<>>]
    ELSE LET sample_indx == sample_indices[sample_list[i]] + 9
         IN  IF sample_indx + 1 > Len(split_line) THEN [panic |-> TRUE, str |-> <<>>]
             ELSE LET rest == call_string(sample_list, i + 1, sample_indices, split_line)
                  IN  [panic |-> rest.panic,
                       str |-> <<"\t">> \o split_line[sample_indx + 1] \o rest.str]

\* the body of the scan loop of parse_vcf_file (lines 142-174) on one line:
\* "emit" with the VariantInfo to send, "drop", or "panic" (an index out of
\* range in a short line or a short INFO field)
parse_vcf_line(line, maf_cap, annotations, sample_list, sample_indices) ==
    LET split_line == Fields(line)
    IN  IF Len(split_line) < 8 THEN [kind |-> "panic", variant |-> NoVariant]
        ELSE
        LET af == check_allele_freq(split_line[8], maf_cap)
        IN  IF af.panic THEN [kind |-> "panic", variant |-> NoVariant]
            ELSE IF ~(af.pass /\ ~af.err) THEN [kind |-> "drop", variant |-> NoVariant]
            ELSE IF Len(split_line) < 9 THEN [kind |-> "panic", variant |-> NoVariant]
            ELSE IF ~parse_genotype_calls(Slice(split_line, 10, Len(split_line)),
                                          generate_reference_set)
            THEN [kind |-> "drop", variant |-> NoVariant]
            ELSE LET calls == call_string(sample_list, 1, sample_indices, split_line)
                 IN  IF calls.panic THEN [kind |-> "panic", variant |-> NoVariant]
                     ELSE [kind |-> "emit",
                           variant |->
                             [VariantID |-> split_line[3],
                              InfoFields |-> Slice(split_line, 1, 9),
                              Calls |-> calls.str,
                              Annotations |->
                                IF split_line[3] \in DOMAIN annotations
                                THEN SomeAnnotations(annotations[split_line[3]])
                                ELSE NilAnnotations]]

-----------------------------------------------------------------------------
(* The writer stage, its strings. *)

\* generate_annotation_str: a tab and the value of every requested column
\* the record has
RECURSIVE generate_annotation_str(_, _)
generate_annotation_str(variant_annos, anno_cols) ==
    IF Len(anno_cols) = 0 THEN <<>>
    ELSE (IF anno_cols[1] \in DOMAIN variant_annos
          THEN <<"\t">> \o variant_annos[anno_cols[1]] ELSE <<>>)
         \o generate_annotation_str(variant_annos, Tail(anno_cols))

\* lines 232-234: one "\t-" per requested column
placeholder_mutant(annotation_cols) ==
    IF Len(annotation_cols) = 0 THEN <<>> ELSE <<"\t", "-">>

RECURSIVE placeholder_str(_)
placeholder_str(annotation_cols) ==
    IF Len(annotation_cols) = 0 THEN <<>>
    ELSE <<"\t", "-">> \o placeholder_str(Tail(annotation_cols))

FixedColumns ==
    <<"#CHROM", "\t", "POS", "\t", "ID", "\t", "REF", "\t", "ALT", "\t",
      "QUAL", "\t", "FILTER", "\t", "INFO", "\t", "FORMAT", "\t">>

\* a writer that goes through the annotations of every record
reads_record_mutant(variant) == TRUE

\* lines 231-238: whether writeToFile reads the record the VariantInfo
\* refers to.  Annotations is the map the store holds for the key (line 167
\* hands the map itself on, not a copy); the writer goes through it and
\* through its builders in generate_annotation_str when it is not nil.
reads_record(variant) == ~variant.Annotations.nil

\* a header line with the annotation columns ahead of the samples
header_str_mutant(samples_str, annotation_cols) ==
    FixedColumns \o Join(annotation_cols, "\t") \o <<"\t">> \o samples_str \o <<"\n">>

\* lines 201-209: the header line of the output
header_str(samples_str, annotation_cols) ==
    FixedColumns \o samples_str \o Join(annotation_cols, "\t") \o <<"\n">>

\* lines 222-239: the output line of one variant
output_str(variant, annotation_cols) ==
    Join(variant.InfoFields, "\t") \o variant.Calls
    \o (IF variant.Annotations.nil
        THEN placeholder_str(annotation_cols)
        ELSE generate_annotation_str(variant.Annotations.cols, annotation_cols))
    \o <<"\n">>

-----------------------------------------------------------------------------
(* The inputs the model draws from. *)

\* the characters of region and position expressions
RegionAlphabet == {"c", ":", "|", "-", "0", "1", "2"}

\* the --region values of a whole run: a valid region, a reversed one, a
\* single point, a bare chromosome
RunRegions ==
    {<<"c", ":", "1", "-", "2">>, <<"c", ":", "2", "-", "1">>,
     <<"c", ":", "1">>, <<"c">>}

\* the --keep-cols value, split on ","
anno_cols_to_keep == <<(<<"X">>), (<<"Y">>)>>

AnnoMeta == <<"##", "m">>

AnnoHeader(c1, c2) == Join(<< <<"#", "ID">>, <<"POS">>, c1, c2 >>, "\t")

AnnoRow(key, pos, v1, v2) == Join(<<key, pos, v1, v2>>, "\t")

AnnoKeys == {<<"v1">>, <<"v2">>}

\* positions inside the region 1-2, outside of it, and not a number
AnnoPositions == {<<"1">>, <<"9">>, <<"x">>}

AnnoHeaders ==
    {AnnoHeader(<<"X">>, <<"Y">>), AnnoHeader(<<"Y">>, <<"X">>),
     AnnoHeader(<<"X">>, <<"Z">>)}

AnnoRows ==
    {AnnoRow(k, p, v[1], v[2]) :
        k \in AnnoKeys, p \in AnnoPositions,
        v \in {<< <<"a">>, <<"b">> >>, << <<"c">>, <<"d">> >>}}

AnnoLines == {AnnoMeta} \cup AnnoHeaders \cup AnnoRows

\* the annotation files of a whole run: two rows of v1, no line at all, and
\* a file whose header lacks the requested column Y
RunAnnoFiles ==
    {<<AnnoHeader(<<"X">>, <<"Y">>),
       AnnoRow(<<"v1">>, <<"1">>, <<"a">>, <<"b">>),
       AnnoRow(<<"v1">>, <<"1">>, <<"c">>, <<"d">>)>>,
     <<>>,
     <<AnnoHeader(<<"X">>, <<"Y">>),
       AnnoRow(<<"v1">>, <<"9">>, <<"a">>, <<"b">>)>>,
     <<AnnoHeader(<<"X">>, <<"Z">>),
       AnnoRow(<<"v1">>, <<"1">>, <<"a">>, <<"b">>)>>}

\* lines 426-435: one line of the samples file.  A line of one column gives
\* the empty score; a score with a "." is cut to split_line[1][0 : dot_indx+3]
\* (dot_indx counted from 0), a slice that is out of range when fewer than
\* two characters follow the point; any other score is kept.
read_sample_line(line, sample_ids) ==
    LET split_line == Fields(line)
    IN  IF Len(split_line) = 1
        THEN [panic |-> FALSE, sample_ids |-> Put(sample_ids, split_line[1], <<>>)]
        ELSE LET dot_pos == FirstSep(split_line[2], {"."}, 1)
             IN  IF dot_pos = 0
                 THEN [panic |-> FALSE,
                       sample_ids |-> Put(sample_ids, split_line[1], split_line[2])]
                 ELSE IF dot_pos + 2 > Len(split_line[2])
                 THEN [panic |-> TRUE, sample_ids |-> sample_ids]
                 ELSE [panic |-> FALSE,
                       sample_ids |-> Put(sample_ids, split_line[1],
                                          Slice(split_line[2], 1, dot_pos + 2))]

\* lines 421-436: the scan loop of read_in_samples from line i on
RECURSIVE scan_samples(_, _, _)
scan_samples(lines, i, sample_ids) ==
    IF i > Len(lines) THEN [panic |-> FALSE, sample_ids |-> sample_ids]
    ELSE LET r == read_sample_line(lines[i], sample_ids)
         IN  IF r.panic THEN r ELSE scan_samples(lines, i + 1, r.sample_ids)

\* read_in_samples on the lines of a samples file that could be opened
read_in_samples(lines) == scan_samples(lines, 1, EmptyMap)

SampleLine(id, score) == id \o <<"\t">> \o score

\* the samples file of the run: S1 with the score 1.234, S2 with the score c
RunSampleFile ==
    << SampleLine(<<"S1">>, <<"1", ".", "2", "3", "4">>), SampleLine(<<"S2">>, <<"c">>) >>

\* what read_in_samples returned: sample id -> score
sample_phenos == read_in_samples(RunSampleFile).sample_ids

\* --maf-threshold, in tenths: the default 0.1
maf_threshold == 1

VcfMeta == <<"##", "m">>

VcfHeader(ids) ==
    Join(<< <<"#CHROM">>, <<"POS">>, <<"ID">>, <<"REF">>, <<"ALT">>, <<"QUAL">>,
            <<"FILTER">>, <<"INFO">>, <<"FORMAT">> >> \o ids, "\t")

VcfRow(id, info, calls) ==
    Join(<< <<"1">>, <<"7">>, id, <<"A">>, <<"G">>, <<"q">>, <<"PASS">>, info,
            <<"GT">> >> \o calls, "\t")

\* an INFO field whose third sub-field lists the given frequency texts
RECURSIVE MafList(_)
MafList(values) ==
    IF Len(values) = 0 THEN <<>> ELSE <<"=", values[1]>> \o MafList(Tail(values))

InfoWith(values) == <<"a", ";", "b", ";", "AF">> \o MafList(values)

\* an INFO field with a single sub-field
InfoShort == <<"a">>

VcfHeaders == {VcfHeader(<< <<"S1">>, <<"S2">> >>), VcfHeader(<< <<"S1">>, <<"S3">> >>)}

VcfRows ==
    {VcfRow(id, info, calls) :
        id \in {<<"v1">>, <<"v2">>},
        info \in {InfoWith(<<"0.0">>), InfoWith(<<"0.9">>), InfoWith(<<"x">>), InfoShort},
        calls \in {<< <<"0/1">>, <<"0/0">> >>, << <<"0/0">>, <<"./.">> >>}}

VcfLines == {VcfMeta} \cup VcfHeaders \cup VcfRows

-----------------------------------------------------------------------------
(* The run of pull_variants. *)

\* no function has been called on its own
NoCall == [fn |-> "none"]

Init ==
    /\ pc = "parse_region"
    /\ region_in = <<>>
    /\ parsed_region = ZeroRegion
    /\ anno_in = <<>>
    /\ anno_map = EmptyMap
    /\ vcf_read = <<>>
    /\ vcf_eof = FALSE
    /\ samples = <<>>
    /\ sample_str = <<>>
    /\ out_created = FALSE
    /\ out_file = <<>>
    /\ buf = <<>>
    /\ wr_err = FALSE
    /\ p_pc = "idle"
    /\ p_variant = NoVariant
    /\ w_pc = "idle"
    /\ w_variant = NoVariant
    /\ ch_closed = FALSE
    /\ wg = 0
    /\ sent = <<>>
    /\ anno_src = "unread"
    /\ vcf_err = FALSE
    /\ reported = FALSE
    /\ store_reads = {}
    /\ fn_args = NoCall
    /\ fn_ret = NoCall

\* lines 496-505: parse the region; any error ends the run with os.Exit(1)
ParseRegionOn(inputs) ==
    /\ pc = "parse_region"
    /\ \E region_str \in inputs :
        LET r == parse_region(region_str)
        IN  /\ region_in' = region_str
            /\ parsed_region' = r.region
            /\ pc' = IF r.panic THEN "panic"
                     ELSE IF r.err # <<>> THEN "exit1"
                     ELSE "read_annotations"
    /\ UNCHANGED <<anno_in, anno_map, vcf_read, vcf_eof, samples, sample_str, out_created,
                   out_file, buf, wr_err, p_pc, p_variant, w_pc, w_variant,
                   ch_closed, wg, sent, fnVars, store_reads, anno_src, vcf_err, reported>>

\* lines 508-519: read the annotations; an error ends the run.  When the
\* source cannot be opened or decompressed the scanner stands on a nil
\* *gzip.Reader and the first Scan dereferences it.
ReadAnnotationsOn(inputs) ==
    /\ pc = "read_annotations"
    /\ \E src \in AnnoSources :
        /\ anno_src' = src
        /\ IF open_annotations(src).reader_nil
           THEN /\ pc' = "panic"
                /\ UNCHANGED <<anno_in, anno_map>>
           ELSE \E lines \in inputs :
                   LET r == read_annotations(lines, anno_cols_to_keep, parsed_region)
                   IN  /\ anno_in' = lines
                       /\ anno_map' = r.annotations
                       /\ pc' = IF r.panic THEN "panic"
                                ELSE IF r.err # "nil" THEN "exit1"
                                ELSE "process_header"
    /\ UNCHANGED <<region_in, parsed_region, vcf_read, vcf_eof, samples, sample_str,
                   out_created, out_file, buf, wr_err, p_pc, p_variant, w_pc,
                   w_variant, ch_closed, wg, sent, fnVars, store_reads, vcf_err, reported>>

\* lines 100-126 and 531-536: process_header_ids scans one more line
HeaderScan ==
    /\ pc = "process_header"
    /\ ~vcf_eof
    /\ Len(vcf_read) < MaxLines
    /\ \E line \in VcfLines :
        LET r == process_header_line(line, sample_phenos)
        IN  /\ vcf_read' = Append(vcf_read, line)
            /\ vcf_eof' = FALSE
            /\ samples' = r.samples
            /\ sample_str' = r.sample_str
            /\ pc' = CASE r.kind = "skip" -> "process_header"
                       [] r.kind = "header" -> "create_output"
                       [] r.kind = "error" -> "exit1"
                       [] r.kind = "panic" -> "panic"
    /\ UNCHANGED <<region_in, parsed_region, anno_in, anno_map, out_created,
                   out_file, buf, wr_err, p_pc, p_variant, w_pc, w_variant,
                   ch_closed, wg, sent, fnVars, store_reads, anno_src, vcf_err, reported>>

\* lines 100, 127-131 and 531-536: the stream ends while process_header_ids
\* is still looking for the header; the loop ends with err still nil
HeaderEOF ==
    /\ pc = "process_header"
    /\ vcf_eof' = TRUE
    /\ \E failed \in BOOLEAN :
        /\ vcf_err' = failed
        /\ pc' = IF failed THEN "exit1" ELSE "create_output"
    /\ UNCHANGED <<region_in, parsed_region, anno_in, anno_map, vcf_read, samples,
                   sample_str, out_created, out_file, buf, wr_err, p_pc,
                   p_variant, w_pc, w_variant, ch_closed, wg, sent, fnVars, store_reads, anno_src, reported>>

\* lines 539-550: create the output file; a failure ends the run
CreateOutput ==
    /\ pc = "create_output"
    /\ \E ok \in BOOLEAN :
        /\ out_created' = ok
        /\ pc' = IF ok THEN "spawn" ELSE "exit1"
    /\ UNCHANGED <<region_in, parsed_region, anno_in, anno_map, vcf_read, vcf_eof, samples,
                   sample_str, out_file, buf, wr_err, p_pc, p_variant, w_pc,
                   w_variant, ch_closed, wg, sent, fnVars, store_reads, anno_src, vcf_err, reported>>

\* lines 553-562: start the two goroutines
Spawn ==
    /\ pc = "spawn"
    /\ wg' = 2
    /\ p_pc' = "scan"
    /\ w_pc' = "header"
    /\ pc' = "wait"
    /\ UNCHANGED <<region_in, parsed_region, anno_in, anno_map, vcf_read, vcf_eof, samples,
                   sample_str, out_created, out_file, buf, wr_err, p_variant,
                   w_variant, ch_closed, sent, fnVars, store_reads, anno_src, vcf_err, reported>>

\* lines 140-177: the producer scans one record and drops it, or builds its
\* VariantInfo and stands at "ch <- variant", or panics.  The scanner can
\* hand out a line it had buffered after the read that filled the buffer
\* failed: Err() is then already set inside the loop, and the check at lines
\* 174-176, reached at the end of the loop body, prints it.
ProducerScan ==
    /\ pc = "wait"
    /\ p_pc = "scan"
    /\ ~vcf_eof
    /\ Len(vcf_read) < MaxLines
    /\ \E line \in VcfRows :
        LET r == parse_vcf_line(line, maf_threshold, anno_map, samples,
                                map_header_ids(samples))
        IN  /\ vcf_read' = Append(vcf_read, line)
            /\ vcf_eof' = FALSE
            /\ \E failed \in BOOLEAN : vcf_err' = (vcf_err \/ failed)
            /\ \/ /\ r.kind = "panic"
                  /\ pc' = "panic"
                  /\ UNCHANGED <<p_pc, p_variant, sent, reported, store_reads>>
               \/ /\ r.kind = "drop"
                  /\ reported' = (reported \/ vcf_err')
                  /\ UNCHANGED <<pc, p_pc, p_variant, sent, store_reads>>
               \/ /\ r.kind = "emit"
                  /\ p_pc' = "send"
                  /\ p_variant' = r.variant
                  /\ sent' = Append(sent, Len(vcf_read) + 1)
                  /\ store_reads' = store_reads \cup {"producer"}
                  /\ UNCHANGED <<pc, reported>>
    /\ UNCHANGED <<region_in, parsed_region, anno_in, anno_map, samples,
                   sample_str, out_created, out_file, buf, wr_err, w_pc,
                   w_variant, ch_closed, wg, fnVars, anno_src>>

\* lines 140, 179 and 135: Scan returns false, at the end of the input or on
\* a read error; nothing looks at Err() after the loop; close(ch), then
\* wg.Done()
ProducerEOF ==
    /\ pc = "wait"
    /\ p_pc = "scan"
    /\ vcf_eof' = TRUE
    /\ \E failed \in BOOLEAN : vcf_err' = (vcf_err \/ failed)
    /\ ch_closed' = TRUE
    /\ p_pc' = "done"
    /\ wg' = wg - 1
    /\ UNCHANGED <<pc, region_in, parsed_region, anno_in, anno_map, vcf_read,
                   samples, sample_str, out_created, out_file, buf, wr_err,
                   p_variant, w_pc, w_variant, sent, fnVars, store_reads, anno_src, reported>>

\* a channel that takes a send while the writer is still busy with the
\* record before
Handoff_mutant ==
    /\ pc = "wait"
    /\ p_pc = "send"
    /\ w_pc \in {"recv", "write"}
    /\ w_variant' = p_variant
    /\ p_variant' = NoVariant
    /\ p_pc' = "scan"
    /\ w_pc' = "write"
    /\ reported' = (reported \/ vcf_err)
    /\ UNCHANGED <<pc, region_in, parsed_region, anno_in, anno_map, vcf_read, vcf_eof,
                   samples, sample_str, out_created, out_file, buf, wr_err,
                   ch_closed, wg, sent, fnVars, store_reads, anno_src, vcf_err>>

\* lines 172-176 and 220: the unbuffered channel; the send and the receive
\* happen together, and the producer goes on to the Err() check that ends
\* its loop body
Handoff ==
    /\ pc = "wait"
    /\ p_pc = "send"
    /\ w_pc = "recv"
    /\ w_variant' = p_variant
    /\ p_variant' = NoVariant
    /\ p_pc' = "scan"
    /\ w_pc' = "write"
    /\ reported' = (reported \/ vcf_err)
    /\ UNCHANGED <<pc, region_in, parsed_region, anno_in, anno_map, vcf_read, vcf_eof,
                   samples, sample_str, out_created, out_file, buf, wr_err,
                   ch_closed, wg, sent, fnVars, store_reads, anno_src, vcf_err>>

\* a writer that ends the run after a flush that succeeded
WriteString_mutant(line, next_w_pc) ==
    \/ /\ Len(buf) < BufLines
       /\ buf' = Append(buf, line)
       /\ w_pc' = next_w_pc
       /\ UNCHANGED <<pc, out_file, wr_err>>
    \/ /\ Len(buf) >= BufLines
       /\ out_file' = out_file \o buf
       /\ buf' = <<line>>
       /\ pc' = "exit1"
       /\ UNCHANGED <<w_pc, wr_err>>

\* bufio.Writer.WriteString(line): the line goes into the buffer; a full
\* buffer is flushed to the file first, and that write may fail.  On a
\* failure the writer prints, calls Flush (which the sticky error turns into
\* a no-op) and ends the process with os.Exit(1).
WriteString(line, next_w_pc) ==
    \/ /\ Len(buf) < BufLines
       /\ buf' = Append(buf, line)
       /\ w_pc' = next_w_pc
       /\ UNCHANGED <<pc, out_file, wr_err>>
    \/ /\ Len(buf) >= BufLines
       /\ out_file' = out_file \o buf
       /\ buf' = <<line>>
       /\ w_pc' = next_w_pc
       /\ UNCHANGED <<pc, wr_err>>
    \/ /\ Len(buf) >= BufLines
       /\ wr_err' = TRUE
       /\ pc' = "exit1"
       /\ UNCHANGED <<out_file, buf, w_pc>>

\* lines 201-217: the writer writes the header line
WriterHeader ==
    /\ pc = "wait"
    /\ w_pc = "header"
    /\ WriteString(header_str(sample_str, anno_cols_to_keep), "recv")
    /\ UNCHANGED <<region_in, parsed_region, anno_in, anno_map, vcf_read, vcf_eof, samples,
                   sample_str, out_created, p_pc, p_variant, w_variant,
                   ch_closed, wg, sent, fnVars, store_reads, anno_src, vcf_err, reported>>

\* lines 222-249: the writer writes the line of the variant it received
WriterWrite ==
    /\ pc = "wait"
    /\ w_pc = "write"
    /\ WriteString(output_str(w_variant, anno_cols_to_keep), "recv")
    /\ store_reads' = IF reads_record(w_variant)
                      THEN store_reads \cup {"writer"} ELSE store_reads
    /\ UNCHANGED <<region_in, parsed_region, anno_in, anno_map, vcf_read, vcf_eof, samples,
                   sample_str, out_created, p_pc, p_variant, w_variant,
                   ch_closed, wg, sent, fnVars, anno_src, vcf_err, reported>>

\* lines 220 and 251-253: the channel is closed; the range loop ends, the
\* writer flushes (the result of Flush is not looked at) and wg.Done() runs
WriterDone ==
    /\ pc = "wait"
    /\ w_pc = "recv"
    /\ ch_closed
    /\ \/ /\ out_file' = out_file \o buf
          /\ buf' = <<>>
          /\ UNCHANGED wr_err
       \/ /\ buf # <<>>
          /\ wr_err' = TRUE
          /\ UNCHANGED <<out_file, buf>>
    /\ w_pc' = "done"
    /\ wg' = wg - 1
    /\ UNCHANGED <<pc, region_in, parsed_region, anno_in, anno_map, vcf_read, vcf_eof,
                   samples, sample_str, out_created, p_pc, p_variant, w_variant,
                   ch_closed, sent, fnVars, store_reads, anno_src, vcf_err, reported>>

\* a wait that returns as soon as one of the two goroutines is done
Wait_mutant ==
    /\ pc = "wait"
    /\ wg <= 1
    /\ pc' = "done"
    /\ UNCHANGED <<region_in, parsed_region, anno_in, anno_map, vcf_read, vcf_eof, samples,
                   sample_str, out_created, out_file, buf, wr_err, p_pc,
                   p_variant, w_pc, w_variant, ch_closed, wg, sent, fnVars, store_reads, anno_src, vcf_err, reported>>

\* lines 564-573: wg.Wait() returns; the run ends
Wait ==
    /\ pc = "wait"
    /\ wg = 0
    /\ pc' = "done"
    /\ UNCHANGED <<region_in, parsed_region, anno_in, anno_map, vcf_read, vcf_eof, samples,
                   sample_str, out_created, out_file, buf, wr_err, p_pc,
                   p_variant, w_pc, w_variant, ch_closed, wg, sent, fnVars, store_reads, anno_src, vcf_err, reported>>

ParseRegion == ParseRegionOn(RunRegions)

ReadAnnotations == ReadAnnotationsOn(RunAnnoFiles)

Next ==
    \/ ParseRegion
    \/ ReadAnnotations
    \/ HeaderScan
    \/ HeaderEOF
    \/ CreateOutput
    \/ Spawn
    \/ ProducerScan
    \/ ProducerEOF
    \/ Handoff
    \/ WriterHeader
    \/ WriterWrite
    \/ WriterDone
    \/ Wait

Spec == Init /\ [][Next]_vars

\* A goroutine that can take a step is scheduled, and wg.Wait() returns once
\* the counter is zero.  The variant stream is finite: the scanner of the
\* producer ends up returning false (ProducerEOF).
FairSpec ==
    /\ Spec
    /\ WF_vars(ProducerEOF)
    /\ WF_vars(Handoff)
    /\ WF_vars(WriterHeader)
    /\ WF_vars(WriterWrite)
    /\ WF_vars(WriterDone)
    /\ WF_vars(Wait)

-----------------------------------------------------------------------------
(* The functions called on their own, over every input up to the bounds. *)

\* regions parse_region can return (0 <= start < end), and the region of the
\* worked example with its three positions
CheckRegions == {[start |-> 0, end |-> 1], [start |-> 1, end |-> 2]}

ExampleRegion == [start |-> 100, end |-> 200]

ExamplePositions == {<<"5", "0">>, <<"1", "5", "0">>, <<"2", "5", "0">>}

\* lines 266-304: one call of check_region
CheckRegionCall ==
    /\ fn_args = NoCall
    /\ \E call \in (StringsUpTo(RegionAlphabet, MaxStrLen) \X CheckRegions)
                      \cup (ExamplePositions \X {ExampleRegion}) :
        /\ fn_args' = [fn |-> "check_region", anno_pos |-> call[1],
                       start |-> call[2].start, end |-> call[2].end]
        /\ fn_ret' = check_region(call[1], call[2].start, call[2].end)
    /\ UNCHANGED runVars

\* the texts a frequency value can be: the decimals of DecimalTenths and a
\* text that is no number
MafTexts == DOMAIN DecimalTenths \cup {"x"}

MafCaps == 0..10

\* lines 66-86: one call of check_allele_freq on an INFO field that lists
\* 0 to MaxMafValues values, or on one with fewer than three sub-fields
CheckAlleleFreqCall ==
    /\ fn_args = NoCall
    /\ \E values \in StringsUpTo(MafTexts, MaxMafValues), cap \in MafCaps,
          short \in BOOLEAN :
        LET token == IF short /\ values = <<>> THEN InfoShort ELSE InfoWith(values)
        IN  /\ fn_args' = [fn |-> "check_allele_freq", token |-> token,
                           max_freq_threshold |-> cap]
            /\ fn_ret' = check_allele_freq(token, cap)
    /\ UNCHANGED runVars

ParseRegionAll == ParseRegionOn(StringsUpTo(RegionAlphabet, MaxStrLen))

ReadAnnotationsAll == ReadAnnotationsOn(StringsUpTo(AnnoLines, MaxAnnoLines))

NextRegion == ParseRegionAll \/ ReadAnnotations

SpecRegion == Init /\ [][NextRegion]_vars

NextAnno == ParseRegion \/ ReadAnnotationsAll

SpecAnno == Init /\ [][NextAnno]_vars

SpecCheckRegion == Init /\ [][CheckRegionCall]_vars

SpecAlleleFreq == Init /\ [][CheckAlleleFreqCall]_vars

-----------------------------------------------------------------------------
(* C1: the region. *)

\* the parts of the region string given to the run
RegionParts == SplitOn(region_in, RegionSeps)

\* C1: once the region string has been parsed, a region whose start is
\* greater than or equal to its end has ended the run with an error: the run
\* is at os.Exit(1), it has not gone on to read the annotations, and no later
\* step has run.
C1_ReversedRegionEndsRun ==
    (/\ pc # "parse_region"
     /\ Len(RegionParts) >= 3
     /\ Atoi(RegionParts[2]).val >= Atoi(RegionParts[3]).val)
    => (pc = "exit1" /\ anno_in = <<>> /\ anno_map = EmptyMap /\ vcf_read = <<>>)

\* a region with start = end and one with start > end, both numeric, parsed
\* and refused
C1_Witness ==
    /\ pc = "exit1"
    /\ region_in \in {<<"c", ":", "1", "-", "1">>, <<"c", ":", "2", "-", "1">>}

-----------------------------------------------------------------------------
(* C2: check_region. *)

\* the parts of the position string given to check_region
PosParts == SplitOn(fn_args.anno_pos, RegionSeps)

IsNumber(s) == ~Atoi(s).err

\* C2: check_region retains a row with a single position p ("p" or "chr:p")
\* exactly when start <= p <= end, and a row with an interval "chr:p-q",
\* p <= q, exactly when p or q lies in [start, end].
C2_CheckRegionInclusive ==
    fn_args.fn = "check_region" =>
        LET lo == fn_args.start
            hi == fn_args.end
        IN  /\ (Len(PosParts) = 1 /\ IsNumber(PosParts[1]))
                => (fn_ret.in_region
                        <=> (lo <= Atoi(PosParts[1]).val /\ Atoi(PosParts[1]).val <= hi))
            /\ (Len(PosParts) = 2 /\ IsNumber(PosParts[2]))
                => (fn_ret.in_region
                        <=> (lo <= Atoi(PosParts[2]).val /\ Atoi(PosParts[2]).val <= hi))
            /\ (/\ Len(PosParts) = 3
                /\ IsNumber(PosParts[2])
                /\ IsNumber(PosParts[3])
                /\ Atoi(PosParts[2]).val <= Atoi(PosParts[3]).val)
                => (fn_ret.in_region
                        <=> \/ (lo <= Atoi(PosParts[2]).val /\ Atoi(PosParts[2]).val <= hi)
                            \/ (lo <= Atoi(PosParts[3]).val /\ Atoi(PosParts[3]).val <= hi))

\* the worked example: with region 100-200 the position 150 is retained
C2_Witness ==
    /\ fn_args.fn = "check_region"
    /\ fn_args.anno_pos = <<"1", "5", "0">>
    /\ fn_args.start = 100
    /\ fn_args.end = 200
    /\ fn_ret.in_region

-----------------------------------------------------------------------------
(* C3: the aggregation of the rows of one key. *)

\* whether a row's position ("p", "chr:p" or "chr:p-q") is a position inside
\* the parsed region
PositionInRegion(pos) ==
    LET parts == SplitOn(pos, RegionSeps)
        p == IF Len(parts) = 1 THEN parts[1] ELSE parts[2]
        inside(x) == parsed_region.start <= x /\ x <= parsed_region.end
    IN  /\ IsNumber(p)
        /\ Len(parts) >= 3 => IsNumber(parts[3])
        /\ \/ inside(Atoi(p).val)
           \/ Len(parts) >= 3 /\ inside(Atoi(parts[3]).val)

\* whether line i of the annotation file is an in-region data row of key
InRegionRowOf(key, i) ==
    /\ ~ContainsHash(anno_in[i])
    /\ Len(Fields(anno_in[i])) >= 2
    /\ Fields(anno_in[i])[1] = key
    /\ PositionInRegion(Fields(anno_in[i])[2])

\* the column header in force at line i: the last "#" line before it
HeaderInForce(i) ==
    LET before == {j \in 1..(i - 1) :
                      ContainsHash(anno_in[j]) /\ ~ContainsDoubleHash(anno_in[j])}
    IN  IF before = {} THEN <<>>
        ELSE Fields(anno_in[CHOOSE j \in before : \A h \in before : h <= j])

\* whether row i has a value in the column named col, and that value
HasValue(i, col) ==
    \E c \in 1..Len(HeaderInForce(i)) :
        HeaderInForce(i)[c] = col /\ c <= Len(Fields(anno_in[i]))

ValueOf(i, col) ==
    LET h == HeaderInForce(i)
    IN  Fields(anno_in[i])[CHOOSE c \in 1..Len(h) :
                              h[c] = col /\ \A d \in 1..Len(h) : h[d] = col => d <= c]

\* the values of column col in the in-region rows of key, from line i on, in
\* source order
RECURSIVE RowValues(_, _, _)
RowValues(key, col, i) ==
    IF i > Len(anno_in) THEN <<>>
    ELSE IF InRegionRowOf(key, i) /\ HasValue(i, col)
    THEN <<ValueOf(i, col)>> \o RowValues(key, col, i + 1)
    ELSE RowValues(key, col, i + 1)

\* C3: after read_annotations has returned a store, for every key K with
\* k >= 1 in-region rows and every requested column the k rows carry, the
\* stored value of K for that column is the k row values joined by ";" in
\* source order, nothing removed.
C3_RowsJoinedInOrder ==
    pc = "process_header" =>
        \A key \in AnnoKeys, c \in 1..Len(anno_cols_to_keep) :
            LET col == anno_cols_to_keep[c]
                rows == {i \in 1..Len(anno_in) : InRegionRowOf(key, i)}
                values == RowValues(key, col, 1)
            IN  (rows # {} /\ Len(values) = Cardinality(rows))
                => /\ key \in DOMAIN anno_map
                   /\ col \in DOMAIN anno_map[key]
                   /\ anno_map[key][col] = Join(values, ";")

-----------------------------------------------------------------------------
(* C4, C5: the header of the variant stream. *)

\* the index in the stream of its first line without "##" (the line
\* process_header_ids stops at), 0 when the stream scanned so far has none
FirstNonComment ==
    LET found == {i \in 1..Len(vcf_read) : ~ContainsDoubleHash(vcf_read[i])}
    IN  IF found = {} THEN 0 ELSE CHOOSE i \in found : \A j \in found : i <= j

\* the sample ids of a header line
HeaderSamples(line) == Slice(Fields(line), 10, Len(Fields(line)))

\* whether the header line names a sample the phenotype mapping lacks
HasUnknownSample(line) ==
    \E i \in 1..Len(HeaderSamples(line)) :
        HeaderSamples(line)[i] \notin DOMAIN sample_phenos

\* C4: when the header line of the variant stream names a sample id without
\* an entry in the phenotype mapping, the run has ended with an error at that
\* line: the output file was never created, no goroutine was started, no
\* record was read or emitted and nothing was written.
C4_UnknownSampleAborts ==
    (/\ FirstNonComment # 0
     /\ ContainsChrom(vcf_read[FirstNonComment])
     /\ HasUnknownSample(vcf_read[FirstNonComment]))
    => /\ pc = "exit1"
       /\ Len(vcf_read) = FirstNonComment
       /\ ~out_created
       /\ p_pc = "idle" /\ w_pc = "idle"
       /\ sent = <<>> /\ buf = <<>> /\ out_file = <<>>

\* the header S1, S3 (S3 has no phenotype) was read after a comment line and
\* ended the run
C4_Witness ==
    /\ pc = "exit1"
    /\ Len(vcf_read) = 2
    /\ vcf_read[1] = VcfMeta
    /\ vcf_read[2] = VcfHeader(<< <<"S1">>, <<"S3">> >>)

\* C5: when the variant stream has no header line (it is empty, it has only
\* "##" lines, or its first line without "##" is a data row), the run, once
\* past process_header_ids, has ended with an error and nothing was started.
C5_NoHeaderAborts ==
    (/\ pc \notin {"parse_region", "read_annotations", "process_header"}
     /\ vcf_eof \/ vcf_read # <<>>
     /\ \/ FirstNonComment = 0
        \/ ~ContainsChrom(vcf_read[IF FirstNonComment = 0 THEN 1 ELSE FirstNonComment]))
    => (pc = "exit1" /\ ~out_created /\ p_pc = "idle" /\ w_pc = "idle")

-----------------------------------------------------------------------------
(* C6: the genotype filter. *)

\* the indices in the stream of the data rows the producer has scanned
ScannedRows ==
    IF p_pc = "idle" \/ FirstNonComment = 0 THEN {}
    ELSE (FirstNonComment + 1)..Len(vcf_read)

\* whether row j passes the allele-frequency check
PassesFrequency(j) ==
    LET checked == check_allele_freq(Fields(vcf_read[j])[8], maf_threshold)
    IN  ~checked.panic /\ checked.pass /\ ~checked.err

\* the genotype calls of row j
CallsOf(j) == Slice(Fields(vcf_read[j]), 10, Len(Fields(vcf_read[j])))

\* whether some call of row j is outside {0/0, ./., 0/., ./0, .}
HasNonReferenceCall(j) ==
    \E c \in 1..Len(CallsOf(j)) :
        CallsOf(j)[c] \notin {<<"0/0">>, <<"./.">>, <<"0/.">>, <<"./0">>, <<".">>}

\* the rows the producer has emitted (reached "ch <- variant" with)
Emitted == {sent[i] : i \in 1..Len(sent)}

\* C6: a scanned record that passes the allele-frequency check has been
\* emitted exactly when one of its genotype calls is outside the reference
\* set {0/0, ./., 0/., ./0, .}; one whose calls are all in the set is dropped.
C6_EmittedIffNonReferenceCall ==
    \A j \in ScannedRows :
        PassesFrequency(j) => (j \in Emitted <=> HasNonReferenceCall(j))

\* one record with a call 0/1 was emitted and one with only reference calls
\* was dropped, both having passed the frequency check
C6_Witness ==
    /\ \E j \in ScannedRows :
          PassesFrequency(j) /\ HasNonReferenceCall(j) /\ j \in Emitted
    /\ \E j \in ScannedRows :
          PassesFrequency(j) /\ ~HasNonReferenceCall(j) /\ j \notin Emitted

-----------------------------------------------------------------------------
(* C7: check_allele_freq. *)

\* the values listed in the allele-frequency sub-field of the INFO field
\* given to check_allele_freq
ListedValues ==
    LET sub_fields == SplitOn(fn_args.token, {";"})
        pieces == IF Len(sub_fields) < 3 THEN <<>> ELSE SplitOn(sub_fields[3], {"="})
    IN  IF Len(pieces) = 0 THEN <<>> ELSE Tail(pieces)

IsFrequency(v) == Len(v) = 1 /\ v[1] \in DOMAIN DecimalTenths

\* C7: on an INFO field whose allele-frequency sub-field lists frequency
\* values, check_allele_freq reports the site as passing exactly when at
\* least one listed value is less than or equal to the threshold.
C7_PassIffAnyValueWithin ==
    (/\ fn_args.fn = "check_allele_freq"
     /\ Len(SplitOn(fn_args.token, {";"})) >= 3
     /\ \A i \in 1..Len(ListedValues) : IsFrequency(ListedValues[i]))
    => (fn_ret.pass
            <=> \E i \in 1..Len(ListedValues) :
                    DecimalTenths[ListedValues[i][1]] <= fn_args.max_freq_threshold)

-----------------------------------------------------------------------------
(* C8: the order of the rows. *)

\* whether the filter retains row j: it passes the frequency check and has a
\* call outside the reference set
Retained(j) == PassesFrequency(j) /\ HasNonReferenceCall(j)

\* the retained rows among the scanned rows from j on, in input order
RECURSIVE RetainedFrom(_)
RetainedFrom(j) ==
    IF j > Len(vcf_read) THEN <<>>
    ELSE (IF j \in ScannedRows /\ Retained(j) THEN <<j>> ELSE <<>>)
         \o RetainedFrom(j + 1)

\* the output row of input row j
RowOf(j) ==
    output_str(parse_vcf_line(vcf_read[j], maf_threshold, anno_map, samples,
                              map_header_ids(samples)).variant,
               anno_cols_to_keep)

RetainedRows == [i \in 1..Len(RetainedFrom(1)) |-> RowOf(RetainedFrom(1)[i])]

\* the data rows the writer has written so far (to its buffer or the file),
\* and the data rows in the file
WrittenRows == IF out_file \o buf = <<>> THEN <<>> ELSE Tail(out_file \o buf)

FileRows == IF out_file = <<>> THEN <<>> ELSE Tail(out_file)

\* C8: in every state of every interleaving the data rows written so far are
\* the rows of the first retained records, in input order, each once; and
\* when the run is done (no write having failed) the data rows of the file
\* are the rows of all retained records.
C8_RowsFollowRetainedRecords ==
    /\ Len(WrittenRows) <= Len(RetainedRows)
    /\ WrittenRows = SubSeq(RetainedRows, 1, Len(WrittenRows))
    /\ (pc = "done" /\ ~wr_err) => FileRows = RetainedRows

\* a finished run that wrote two different rows
C8_Witness ==
    /\ pc = "done"
    /\ ~wr_err
    /\ Len(FileRows) = 2
    /\ FileRows[1] # FileRows[2]

-----------------------------------------------------------------------------
(* C9: termination. *)

\* C9: once the goroutines are started, the run eventually reaches DONE with
\* the channel closed by the producer and both stages ended; no stage stays
\* blocked forever.  (A write the file system refuses ends the run instead.)
C9_RunReachesDone ==
    (pc = "wait")
        ~> (\/ pc = "done" /\ ch_closed /\ p_pc = "done" /\ w_pc = "done"
            \/ wr_err)

-----------------------------------------------------------------------------
(* C10: the output as a function of the inputs. *)

\* what the region string, the annotation file and the variant stream
\* determine, computed stage after stage
InputAnnotations ==
    read_annotations(anno_in, anno_cols_to_keep, parse_region(region_in).region).annotations

InputHeader ==
    IF FirstNonComment = 0 THEN [kind |-> "skip", samples |-> <<>>, sample_str |-> <<>>]
    ELSE process_header_line(vcf_read[FirstNonComment], sample_phenos)

RECURSIVE InputRowsFrom(_)
InputRowsFrom(j) ==
    IF FirstNonComment = 0 \/ j > Len(vcf_read) THEN <<>>
    ELSE LET r == parse_vcf_line(vcf_read[j], maf_threshold, InputAnnotations,
                                 InputHeader.samples,
                                 map_header_ids(InputHeader.samples))
         IN  (IF r.kind = "emit" THEN <<output_str(r.variant, anno_cols_to_keep)>>
              ELSE <<>>) \o InputRowsFrom(j + 1)

InputOutput ==
    <<header_str(InputHeader.sample_str, anno_cols_to_keep)>>
    \o InputRowsFrom(FirstNonComment + 1)

\* C10: the file of a finished run (no write having failed) is the one the
\* inputs determine, whichever way the two goroutines were scheduled: any
\* two runs on the same inputs end with the same bytes.
C10_OutputDeterminedByInputs ==
    (pc = "done" /\ ~wr_err) => out_file = InputOutput

\* a finished run whose file holds the header and an annotated row
C10_Witness ==
    /\ pc = "done"
    /\ ~wr_err
    /\ Len(out_file) >= 2
    /\ anno_map # EmptyMap
    /\ \E j \in ScannedRows : Retained(j) /\ Fields(vcf_read[j])[3] \in DOMAIN anno_map

-----------------------------------------------------------------------------
(* C11: the scores of the samples file in the header of the output. *)

ScoreAlphabet == {"1", "2", ".", "c"}

\* the samples file A 1.23, B 0.0, C case
ExampleSampleFile ==
    << SampleLine(<<"A">>, <<"1", ".", "2", "3">>),
       SampleLine(<<"B">>, <<"0", ".", "0">>),
       SampleLine(<<"C">>, <<"c", "a", "s", "e">>) >>

\* samples files of one line, and the example
SampleFiles ==
    {<<SampleLine(<<"A">>, score)>> : score \in StringsUpTo(ScoreAlphabet, MaxScoreLen)}
    \cup {ExampleSampleFile}

\* the ids of a samples file, in file order
SampleIdsOf(lines) == [i \in 1..Len(lines) |-> Fields(lines[i])[1]]

\* lines 519-531: read_in_samples on a samples file, then process_header_ids
\* on a variant header that lists the ids of the file in file order
ReadSamplesCall ==
    /\ fn_args = NoCall
    /\ \E lines \in SampleFiles :
        LET r == read_in_samples(lines)
        IN  /\ fn_args' = [fn |-> "read_in_samples", lines |-> lines]
            /\ fn_ret' =
                 IF r.panic THEN [panic |-> TRUE, sample_ids |-> r.sample_ids,
                                  kind |-> "panic", sample_str |-> <<>>]
                 ELSE LET h == process_header_line(VcfHeader(SampleIdsOf(lines)),
                                                   r.sample_ids)
                      IN  [panic |-> FALSE, sample_ids |-> r.sample_ids,
                           kind |-> h.kind, sample_str |-> h.sample_str]
    /\ UNCHANGED runVars

SpecSamples == Init /\ [][ReadSamplesCall]_vars

\* a score cut to one digit after its decimal point; a score without a
\* point as it is
OneDecimal(score) ==
    LET dot_pos == FirstSep(score, {"."}, 1)
    IN  IF dot_pos = 0 \/ dot_pos + 1 >= Len(score) THEN score
        ELSE Slice(score, 1, dot_pos + 1)

\* the sample columns id_score, tab-ended, of the lines from i on
RECURSIVE SampleColumns(_, _)
SampleColumns(lines, i) ==
    IF i > Len(lines) THEN <<>>
    ELSE LET f == Fields(lines[i])
         IN  f[1] \o <<"_">> \o OneDecimal(IF Len(f) = 1 THEN <<>> ELSE f[2])
             \o <<"\t">> \o SampleColumns(lines, i + 1)

\* C11: the header of the output lists the samples in variant-header order,
\* each as id_score, a score with a decimal point cut to one digit after the
\* point and any other score as it is (A 1.23, B 0.0, C case give A_1.2,
\* B_0.0, C_case).
C11_ScoresCutToOneDecimal ==
    fn_args.fn = "read_in_samples" =>
        /\ ~fn_ret.panic
        /\ fn_ret.kind = "header"
        /\ fn_ret.sample_str = SampleColumns(fn_args.lines, 1)

-----------------------------------------------------------------------------
(* C12: an empty store, and a key missing from the store. *)

\* C12: when read_annotations has gone through a readable source to its end
\* and holds no annotation, the run has ended with an error before the
\* variant stream is touched; and a record whose id is missing from the
\* (non-empty) store is sent on with a null annotation, the run going on.
C12_EmptyStoreFatalMissingKeyNot ==
    /\ (/\ pc \notin {"parse_region", "read_annotations"}
        /\ anno_src = "ok"
        /\ ~read_annotations(anno_in, anno_cols_to_keep, parsed_region).panic
        /\ anno_map = EmptyMap)
       => (pc = "exit1" /\ vcf_read = <<>> /\ ~vcf_eof /\ ~out_created /\ p_pc = "idle")
    /\ (p_pc = "send" /\ p_variant.VariantID \notin DOMAIN anno_map)
       => /\ anno_map # EmptyMap
          /\ p_variant.Annotations = NilAnnotations
          /\ pc = "wait" \/ wr_err

\* a source whose only row lies outside the region was read to its end and
\* the run ended
C12_Witness ==
    /\ pc = "exit1"
    /\ anno_src = "ok"
    /\ Len(anno_in) = 2
    /\ anno_map = EmptyMap

-----------------------------------------------------------------------------
(* C15: the row of a record without annotation. *)

\* the row the claim describes for input row j: its first nine fields, the
\* calls of its samples, and one placeholder per requested column
RECURSIVE TabbedFrom(_, _)
TabbedFrom(f, k) ==
    IF k > Len(f) THEN <<>> ELSE <<"\t">> \o f[k] \o TabbedFrom(f, k + 1)

PlaceholderRow(j) ==
    LET f == Fields(vcf_read[j])
    IN  f[1] \o TabbedFrom(f, 2)
        \o [k \in 1..(2 * Len(anno_cols_to_keep)) |-> IF k % 2 = 1 THEN "\t" ELSE "-"]
        \o <<"\n">>

\* the variants in flight: at the send and at the write
InFlight ==
    (IF p_pc = "send" THEN {p_variant} ELSE {})
    \cup (IF w_pc = "write" THEN {w_variant} ELSE {})

\* C15: a retained record whose variant id is not a key of the store carries
\* a null annotation, and its output row ends with exactly one "-" per
\* requested annotation column.
C15_MissingKeyGivesPlaceholders ==
    /\ \A v \in InFlight :
          v.VariantID \notin DOMAIN anno_map => v.Annotations = NilAnnotations
    /\ \A i \in 1..Len(WrittenRows) :
          Fields(vcf_read[RetainedFrom(1)[i]])[3] \notin DOMAIN anno_map
              => WrittenRows[i] = PlaceholderRow(RetainedFrom(1)[i])

\* the row of v2, which the store (of v1 only) lacks, has reached the file
C15_Witness ==
    /\ pc = "done"
    /\ \E i \in 1..Len(FileRows) :
          /\ Fields(vcf_read[RetainedFrom(1)[i]])[3] = <<"v2">>
          /\ <<"v2">> \notin DOMAIN anno_map
          /\ <<"v1">> \in DOMAIN anno_map

-----------------------------------------------------------------------------
(* C13: an annotation source that cannot be read. *)

\* C13: when the annotation source cannot be opened or decompressed,
\* read_annotations has returned the failure as an error and the run has
\* ended on it (os.Exit(1) at lines 511-514), no row having been read.
C13_SourceFailureReturned ==
    (pc # "read_annotations" /\ anno_src \in {"no_file", "not_gzip"})
    => (pc = "exit1" /\ anno_in = <<>> /\ anno_map = EmptyMap)

-----------------------------------------------------------------------------
(* C14: nothing is produced after a pre-flight failure. *)

RegionFailed ==
    /\ pc # "parse_region"
    /\ parse_region(region_in).panic \/ parse_region(region_in).err # <<>>

AnnotationsFailed ==
    /\ pc \notin {"parse_region", "read_annotations"}
    /\ ~RegionFailed
    /\ anno_src # "ok" \/ anno_map = EmptyMap

\* process_header_ids is over and the stream had no header line
HeaderMissing ==
    /\ pc \notin {"parse_region", "read_annotations", "process_header"}
    /\ vcf_eof \/ vcf_read # <<>>
    /\ \/ FirstNonComment = 0
       \/ ~ContainsChrom(vcf_read[IF FirstNonComment = 0 THEN 1 ELSE FirstNonComment])

UnknownSample ==
    /\ FirstNonComment # 0
    /\ ContainsChrom(vcf_read[FirstNonComment])
    /\ HasUnknownSample(vcf_read[FirstNonComment])

\* C14: after a pre-flight failure (region parse error, annotation source
\* failure, missing variant-stream header, sample id without phenotype) the
\* output file has not been created and nothing has been written; the file
\* exists only when all of these steps succeeded.
C14_NoOutputAfterPreflightFailure ==
    (RegionFailed \/ AnnotationsFailed \/ HeaderMissing \/ UnknownSample)
    => (~out_created /\ out_file = <<>> /\ buf = <<>> /\ w_pc = "idle")

-----------------------------------------------------------------------------
(* C16, C20: the rows and the columns of the store. *)

\* whether a line of the annotation file is a data row whose position does
\* not convert to an integer
BadPositionRow(line) ==
    /\ ~ContainsHash(line)
    /\ Len(Fields(line)) >= 2
    /\ check_region(Fields(line)[2], parsed_region.start, parsed_region.end).err # <<>>

\* the annotation file without these rows
RECURSIVE WithoutBadRows(_)
WithoutBadRows(lines) ==
    IF Len(lines) = 0 THEN <<>>
    ELSE (IF BadPositionRow(lines[1]) THEN <<>> ELSE <<lines[1]>>)
         \o WithoutBadRows(Tail(lines))

\* C16: a data row whose position does not parse adds nothing to the store:
\* the store read_annotations returns is the store of the file without such
\* rows, and the scan has gone on to the rows after them.
C16_BadPositionRowSkipped ==
    (pc \in {"process_header", "exit1"} /\ anno_src = "ok")
    => anno_map = read_annotations(WithoutBadRows(anno_in), anno_cols_to_keep,
                                   parsed_region).annotations

\* C20: every record of the store read_annotations returns has exactly the
\* requested columns as its keys.
C20_RecordKeysAreRequestedColumns ==
    (pc = "process_header" /\ anno_src = "ok")
    => \A key \in DOMAIN anno_map :
          DOMAIN anno_map[key]
              = {anno_cols_to_keep[c] : c \in 1..Len(anno_cols_to_keep)}

-----------------------------------------------------------------------------
(* C17, C18: malformed allele-frequency fields. *)

\* C17: on an INFO field that lists a value that does not parse as a number,
\* check_allele_freq returns an error, wherever the value stands in the list.
C17_BadValueAlwaysError ==
    (/\ fn_args.fn = "check_allele_freq"
     /\ Len(SplitOn(fn_args.token, {";"})) >= 3
     /\ \E i \in 1..Len(ListedValues) : ~IsFrequency(ListedValues[i]))
    => (~fn_ret.panic /\ fn_ret.err)

\* whether the INFO field of row j has fewer than three sub-fields or lists a
\* value that check_allele_freq fails to parse
MalformedFrequency(j) ==
    LET checked == check_allele_freq(Fields(vcf_read[j])[8], maf_threshold)
    IN  checked.panic \/ checked.err

\* C18: a scanned record whose allele-frequency field is malformed has been
\* skipped (it is not emitted) and the run has not ended on it: the producer
\* is still at work or has closed the channel.
C18_MalformedRecordSkipped ==
    \A j \in ScannedRows :
        MalformedFrequency(j)
        => /\ j \notin Emitted
           /\ pc # "panic"
           /\ p_pc = "done" => ch_closed

-----------------------------------------------------------------------------
(* C19: a read error of the variant stream. *)

\* C19: when the producer's scan loop has ended and the scanner had stopped
\* on a read error, the producer has reported the error.
C19_ReadErrorReportedAfterLoop ==
    (p_pc = "done" /\ vcf_err) => reported

-----------------------------------------------------------------------------
(* C21: a column header declared again partway through the file. *)

\* annotation files that declare the column header, give a row, declare the
\* header again and give a second row
RedeclaredFiles ==
    {<<h1, r1, h2, r2>> : h1 \in AnnoHeaders, r1 \in AnnoRows,
                          h2 \in AnnoHeaders, r2 \in AnnoRows}

ReadAnnotationsRedeclared == ReadAnnotationsOn(RedeclaredFiles)

NextRedeclare == ParseRegion \/ ReadAnnotationsRedeclared

SpecRedeclare == Init /\ [][NextRedeclare]_vars

\* C21: on a file that declares its column header again, the scan completes
\* and the row after the second header is read with the second mapping: for
\* every requested column the second header names, the stored value of the
\* row's key ends with the row's value in that column, also when the key was
\* first stored under the first header.
C21_LatestMappingApplies ==
    (pc # "read_annotations" /\ anno_src = "ok" /\ Len(anno_in) = 4)
    => /\ pc # "panic"
       /\ \A key \in AnnoKeys, c \in 1..Len(anno_cols_to_keep) :
             LET col == anno_cols_to_keep[c]
             IN  (InRegionRowOf(key, 4) /\ HasValue(4, col))
                 => /\ key \in DOMAIN anno_map
                    /\ col \in DOMAIN anno_map[key]
                    /\ LET stored == anno_map[key][col]
                       IN  Len(stored) >= 1
                           /\ <<stored[Len(stored)]>> = ValueOf(4, col)

-----------------------------------------------------------------------------
(* C22: the three forms of the region string. *)

\* whether the region string is chrom, chrom:pos or chrom:start-end with a
\* chromosome name and numeric positions
AcceptedForm ==
    /\ Len(RegionParts) \in 1..3
    /\ RegionParts[1] # <<>>
    /\ \A i \in 2..Len(RegionParts) : IsNumber(RegionParts[i])
    /\ Len(region_in) >= 2 => region_in[2] = ":"
    /\ Len(RegionParts) = 3 => "-" \in {region_in[i] : i \in 3..Len(region_in)}

\* C22: a region string of one, two or three parts (chrom, chrom:pos,
\* chrom:start-end) makes parse_region return, with a Region or with errors;
\* a single point chrom:pos with a numeric pos is accepted and gives a Region
\* with start = end = pos.
C22_ThreeFormsReturn ==
    /\ (pc # "parse_region" /\ AcceptedForm) => pc # "panic"
    /\ (pc # "parse_region" /\ AcceptedForm /\ Len(RegionParts) = 2)
       => /\ pc \notin {"panic", "exit1"}
          /\ parsed_region.start = Atoi(RegionParts[2]).val
          /\ parsed_region.end = Atoi(RegionParts[2]).val

-----------------------------------------------------------------------------
(* C23: the failure exit and the streaming phase. *)

\* C23 as stated: once the two goroutines have been started (the run is at
\* wg.Wait()), no step moves the run to the failure exit.
C23_NoFailureOnceStreaming ==
    [][pc = "wait" => pc' # "exit1"]_vars

\* C23: once the two goroutines have been started, the only step that moves
\* the run to the failure exit is a write of the writer (header or row) that
\* has just failed; no step of the producer does, and the step leaves the
\* file as it was.
C23_FailureOnlyByWriteError ==
    [][(pc = "wait" /\ pc' = "exit1")
       => /\ w_pc \in {"header", "write"}
          /\ ~wr_err /\ wr_err'
          /\ UNCHANGED <<p_pc, p_variant, vcf_read, sent, out_file>>]_vars

\* the writer has failed on a row and ended the run while streaming
C23_Witness ==
    pc = "exit1" /\ wr_err /\ out_created /\ w_pc = "write" /\ p_pc # "idle"

-----------------------------------------------------------------------------
(* C24: the flush at the end of the stream. *)

\* C24: when the run has passed wg.Wait(), the writer has flushed: its buffer
\* is empty and the file holds the header and the row of every record the
\* writer consumed from the channel.
C24_ConsumedRecordsInFileAtBarrier ==
    pc = "done"
    => /\ buf = <<>>
       /\ out_file # <<>>
       /\ Len(FileRows) = Len(sent)

-----------------------------------------------------------------------------
(* C25: who touches the annotation store. *)

\* the store as read_annotations returned it
StoreAsBuilt ==
    read_annotations(anno_in, anno_cols_to_keep, parsed_region).annotations

\* whether read_annotations has returned a store
StoreBuilt == pc \notin {"parse_region", "read_annotations"} /\ anno_src = "ok"

\* the ids of the records the writer has received
ConsumedIds ==
    {Fields(vcf_read[sent[i]])[3] :
        i \in {k \in 1..Len(sent) : k < Len(sent) \/ p_pc # "send"}}

-----------------------------------------------------------------------------
(* C26: the header line of the output. *)

\* the nine fixed column names
FixedNames ==
    << <<"#CHROM">>, <<"POS">>, <<"ID">>, <<"REF">>, <<"ALT">>, <<"QUAL">>,
       <<"FILTER">>, <<"INFO">>, <<"FORMAT">> >>

\* the sample columns of the output: the ids of the #CHROM line of the
\* variant stream, in its order, each followed by "_" and its phenotype
DecoratedSamples ==
    IF FirstNonComment = 0 \/ ~ContainsChrom(vcf_read[FirstNonComment]) THEN <<>>
    ELSE LET ids == HeaderSamples(vcf_read[FirstNonComment])
         IN  [i \in 1..Len(ids) |-> ids[i] \o <<"_">> \o sample_phenos[ids[i]]]

ExpectedHeader ==
    Join(FixedNames \o DecoratedSamples \o anno_cols_to_keep, "\t") \o <<"\n">>

\* every line the writer has written so far, to the file or to its buffer
WrittenLines == out_file \o buf

\* C26: the writer writes the header line before it takes a record from the
\* channel, and writes it once: the first line written is the header (the
\* nine fixed names, the decorated sample ids in header order, the requested
\* annotation columns in the requested order) and no later line is a header;
\* a finished run without a retained record has the header as its only line.
C26_HeaderOnceAndFirst ==
    /\ w_pc \in {"recv", "write", "done"} => WrittenLines # <<>>
    /\ WrittenLines # <<>>
       => /\ WrittenLines[1] = ExpectedHeader
          /\ \A i \in 2..Len(WrittenLines) :
                WrittenLines[i] # ExpectedHeader /\ WrittenLines[i][1] # "#CHROM"
    /\ (pc = "done" /\ ~wr_err)
       => /\ out_file # <<>>
          /\ out_file[1] = ExpectedHeader
          /\ Len(out_file) = 1 + Len(sent)

\* a finished run on a stream with samples S1 and S2 and a record that was
\* dropped: the file is the header line alone
C26_Witness ==
    /\ pc = "done"
    /\ ~wr_err
    /\ Len(vcf_read) >= 2
    /\ sent = <<>>
    /\ out_file = <<ExpectedHeader>>
    /\ Len(DecoratedSamples) = 2

-----------------------------------------------------------------------------
(* C27: the width of the rows. *)

\* the number of tab-separated columns of an output line
ColumnCount(line) == Len(SplitOn(line, {"\t"}))

\* C27: every data row written has as many tab-separated columns as the
\* header line, 9 + the samples + the requested annotation columns, with or
\* without an annotation match.
C27_RowsAsWideAsHeader ==
    \A i \in 2..Len(WrittenLines) :
        /\ ColumnCount(WrittenLines[i]) = ColumnCount(WrittenLines[1])
        /\ ColumnCount(WrittenLines[i])
               = 9 + Len(DecoratedSamples) + Len(anno_cols_to_keep)

-----------------------------------------------------------------------------
(* view-sample-variants: src/cmd/find_individuals_variants.go and the
   FileReader of src/internal/files/input_file.go. *)

\* a Go slice of errors: nil, or a backing array with its elements.  An
\* element is "nil" (the nil error) or the name of an error.
NilErrors == [nil |-> TRUE, elems |-> <<>>]

\* append(slice, e): the result is never the nil slice, whatever e is
append(slice, e) == [nil |-> FALSE, elems |-> Append(slice.elems, e)]

\* mapHeader: column name -> index (from 0), a later duplicate name winning
mapHeader(header_line) ==
    LET column_list == Fields(header_line)
        names == {column_list[i] : i \in 1..Len(column_list)}
    IN  [n \in names |->
            (CHOOSE i \in 1..Len(column_list) :
                /\ column_list[i] = n
                /\ \A j \in 1..Len(column_list) : column_list[j] = n => j <= i) - 1]

\* FileReader.ParseHeader("#CHROM") from line i on: the scan stops at the
\* first line that holds #CHROM.  next is the line the scanner stands at
\* afterwards.  A read error shows when the scanner gets to the end of what
\* it could read (scan_fails), so a header found before that returns nil.
RECURSIVE ParseHeader(_, _, _)
ParseHeader(lines, i, scan_fails) ==
    IF i > Len(lines)
    THEN [Header_Found |-> FALSE, Header_col_indx |-> EmptyMap, next |-> i,
          err |-> IF scan_fails THEN "scan" ELSE "nil"]
    ELSE IF ContainsChrom(lines[i])
    THEN [Header_Found |-> TRUE, Header_col_indx |-> mapHeader(lines[i]),
          next |-> i + 1, err |-> "nil"]
    ELSE ParseHeader(lines, i + 1, scan_fails)

\* find_col_indx
find_col_indx(colname, header_map) ==
    IF colname \in DOMAIN header_map
    THEN [col_indx |-> header_map[colname], err |-> "nil"]
    ELSE [col_indx |-> 0 - 1, err |-> "missing column"]

\* get_sample_col_indices: every column of the header whose name, cut at its
\* first "_", is one of the requested samples; the score is the second part
\* when the name has exactly two parts, and empty otherwise.  The Go code
\* visits the map in random order; the result is modelled as a set.
get_sample_col_indices(header_map, sample_list) ==
    {[Index |-> header_map[sample_id],
      SampleID |-> SplitOn(sample_id, {"_"})[1],
      Score |-> IF Len(SplitOn(sample_id, {"_"})) = 2
                THEN SplitOn(sample_id, {"_"})[2] ELSE <<>>] :
        sample_id \in {c \in DOMAIN header_map :
                          \E k \in 1..Len(sample_list) :
                              sample_list[k] = SplitOn(c, {"_"})[1]}}

\* check_for_alt_call
check_for_alt_call(call, reference_call_set) == call \notin reference_call_set

\* the search words of check_column_label that the text of a token holds
\* (strings.Contains on the label)
LabelWords(token) ==
    CASE token = "pathogenic" -> {"pathogenic"}
      [] token = "likely_pathogenic" -> {"pathogenic", "likely_pathogenic"}
      [] token = "missense" -> {"missense"}
      [] token = "nonsynonymous" -> {"nonsynonymous"}
      [] OTHER -> {}

\* check_column_label
check_column_label(label, values_of_interest) ==
    \E i \in 1..Len(label) : LabelWords(label[i]) \cap values_of_interest # {}

\* initialize_sample_info: one entry per sample id, with its score
initialize_sample_info(sample_indices) ==
    [id \in {s.SampleID : s \in sample_indices} |->
        [Score |-> (CHOOSE s \in sample_indices : s.SampleID = id).Score,
         PathogenicVariants |-> <<>>,
         NonsynonymousVariants |-> <<>>,
         OtherVariants |-> <<>>]]

\* lines 159-204 of parse_calls: the rows of the calls file from line i on.
\* A row too short for one of the columns read from it panics.
RECURSIVE scan_calls(_, _, _, _, _, _)
scan_calls(lines, i, clinVar_col_indx, consequence_col_indx, sample_indices, sampleInfo) ==
    IF i > Len(lines) THEN [panic |-> FALSE, sampleInfo |-> sampleInfo]
    ELSE
    LET split_line == Fields(lines[i])
        needed == {clinVar_col_indx + 1, consequence_col_indx + 1}
                  \cup (IF sample_indices = {} THEN {}
                        ELSE {3} \cup {s.Index + 1 : s \in sample_indices})
    IN  IF \E n \in needed : n > Len(split_line)
        THEN [panic |-> TRUE, sampleInfo |-> sampleInfo]
        ELSE
        LET is_pathogenic ==
                check_column_label(split_line[clinVar_col_indx + 1],
                                   {"pathogenic", "likely_pathogenic"})
            is_nonsense_variant ==
                check_column_label(split_line[consequence_col_indx + 1],
                                   {"missense", "nonsynonymous"})
            updated ==
                [id \in DOMAIN sampleInfo |->
                    LET individual == CHOOSE s \in sample_indices : s.SampleID = id
                        call == split_line[individual.Index + 1]
                        alternate_call == check_for_alt_call(call, generate_reference_set)
                        variantStr == split_line[3] \o <<":">> \o call
                        old == sampleInfo[id]
                    IN  [Score |-> old.Score,
                         PathogenicVariants |->
                            IF is_pathogenic /\ alternate_call
                            THEN Append(old.PathogenicVariants, variantStr)
                            ELSE old.PathogenicVariants,
                         NonsynonymousVariants |->
                            IF is_nonsense_variant /\ alternate_call
                            THEN Append(old.NonsynonymousVariants, variantStr)
                            ELSE old.NonsynonymousVariants,
                         OtherVariants |->
                            IF ~is_nonsense_variant /\ ~is_pathogenic /\ alternate_call
                            THEN Append(old.OtherVariants, variantStr)
                            ELSE old.OtherVariants]]
        IN  scan_calls(lines, i + 1, clinVar_col_indx, consequence_col_indx,
                       sample_indices, updated)

\* parse_calls: the sample map (nil on an early return) and the slice of
\* errors.  The result of ParseHeader is appended to the slice whether it is
\* an error or nil (lines 133-134).
parse_calls(lines, sample_list, pathogenic_colname, consequence_colname, scan_fails) ==
    LET header == ParseHeader(lines, 1, scan_fails)
        errors == append(NilErrors, header.err)
        clinvar == find_col_indx(pathogenic_colname, header.Header_col_indx)
        consequence == find_col_indx(consequence_colname, header.Header_col_indx)
        sample_indices == get_sample_col_indices(header.Header_col_indx, sample_list)
        rows == scan_calls(lines, header.next, clinvar.col_indx, consequence.col_indx,
                           sample_indices, initialize_sample_info(sample_indices))
    IN  IF ~header.Header_Found
        THEN [panic |-> FALSE, sampleInfo |-> EmptyMap, errors |-> errors]
        ELSE IF clinvar.err # "nil" \/ consequence.err # "nil"
        THEN [panic |-> FALSE, sampleInfo |-> EmptyMap,
              errors |-> append(append(errors, clinvar.err), consequence.err)]
        ELSE [panic |-> rows.panic, sampleInfo |-> rows.sampleInfo,
              errors |-> IF scan_fails THEN append(errors, "scan") ELSE errors]

\* write_variants: the header line and one line per entry of the map (the Go
\* code visits the map in random order; the lines are modelled as a set)
write_variants(sample_variants) ==
    [header |-> <<"SAMPLE", "\t", "SCORE", "\t", "PATHOGENIC_VARIANTS", "\t",
                  "NONSYNONYMOUS_VARIANTS", "\t", "OTHER_VARIANTS", "\n">>,
     lines |->
        {sample_id
         \o <<"\t">> \o (IF sample_variants[sample_id].Score = <<>> THEN <<"-">>
                         ELSE sample_variants[sample_id].Score)
         \o <<"\t">> \o Join(sample_variants[sample_id].PathogenicVariants, ",")
         \o <<"\t">> \o Join(sample_variants[sample_id].NonsynonymousVariants, ",")
         \o <<"\t">> \o Join(sample_variants[sample_id].OtherVariants, ",")
         \o <<"\n">> : sample_id \in DOMAIN sample_variants}]

NoOutput == [header |-> <<>>, lines |-> {}]

\* find_sample_variants on a --samples-list: "panic" when the calls file
\* could not be opened (MakeFileReader leaves FileScanner nil and ParseHeader
\* calls Scan on it) or a row is too short, "exit1" when parse_calls returned
\* a slice of errors that is not nil (lines 277-283) or the output file
\* cannot be created, "done" with the file written otherwise.
find_sample_variants(calls_src, lines, sample_list, clinvar_column_name, consequence_col, scan_fails, create_ok) ==
    LET r == parse_calls(lines, sample_list, clinvar_column_name, consequence_col,
                         scan_fails)
    IN  IF calls_src # "ok" \/ r.panic THEN [exit |-> "panic", output |-> NoOutput]
        ELSE IF ~r.errors.nil THEN [exit |-> "exit1", output |-> NoOutput]
        ELSE IF ~create_ok THEN [exit |-> "exit1", output |-> NoOutput]
        ELSE [exit |-> "done", output |-> write_variants(r.sampleInfo)]

\* The calls files of the model are files pull-variants writes: its header
\* line for a list of sample ids and a phenotype map, then rows.  One id
\* holds an underscore, and so does one score.  The first parts of the ids
\* (S1, S) differ, so no two columns stand for the same SampleID and the
\* order in which Go visits its maps does not show.
CallIds == {<<"S1">>, <<"S", "_", "2">>}

CallScores == {<<"1", ".", "2", "3">>, <<"c">>, <<"c", "_", "x">>, <<>>}

CallIdLists ==
    {<< <<"S1">> >>, << <<"S", "_", "2">> >>,
     << <<"S1">>, <<"S", "_", "2">> >>, << <<"S", "_", "2">>, <<"S1">> >>}

\* the --samples-list values: nothing, each id, both, and the bare prefix S
CallSampleLists ==
    {<<>>, << <<"S1">> >>, << <<"S", "_", "2">> >>,
     << <<"S1">>, <<"S", "_", "2">> >>, << <<"S">> >>}

\* a line of the output of pull-variants as a scanner reads it back: without
\* its newline
FileLine(written) == Slice(written, 1, Len(written) - 1)

\* the header line pull-variants writes for the ids and their phenotypes
CallsHeader(ids, pheno_map) ==
    FileLine(header_str(header_ids(ids, 1, pheno_map, <<>>).sample_str,
                        anno_cols_to_keep))

\* the row pull-variants writes for variant v1 with the given calls and
\* annotation record
CallsRow(calls, annos) ==
    FileLine(output_str([VariantID |-> <<"v1">>,
                         InfoFields |-> << <<"1">>, <<"7">>, <<"v1">>, <<"A">>, <<"G">>,
                                           <<"q">>, <<"PASS">>, <<"i">>, <<"GT">> >>,
                         Calls |-> calls,
                         Annotations |-> annos],
                        anno_cols_to_keep))

\* the rows for n samples: every sample 0/1 or every sample 0/0, with a
\* pathogenic missense record, a benign intron record, or no record
CallsRows(n) ==
    {CallsRow(calls, annos) :
        calls \in {[i \in 1..(2 * n) |-> IF i % 2 = 1 THEN "\t" ELSE "0/1"],
                   [i \in 1..(2 * n) |-> IF i % 2 = 1 THEN "\t" ELSE "0/0"]},
        annos \in {SomeAnnotations((<<"X">> :> <<"pathogenic">>)
                                   @@ (<<"Y">> :> <<"missense">>)),
                   SomeAnnotations((<<"X">> :> <<"benign">>)
                                   @@ (<<"Y">> :> <<"intron">>)),
                   NilAnnotations}}

\* the calls files: the header and 0 to MaxCallRows rows
CallsFiles(ids, pheno_map) ==
    {<<CallsHeader(ids, pheno_map)>> \o rows :
        rows \in StringsUpTo(CallsRows(Len(ids)), MaxCallRows)}

\* one run of view-sample-variants on a calls file of pull-variants
FindSampleVariantsCall ==
    /\ fn_args = NoCall
    /\ \E ids \in CallIdLists, pheno_map \in [CallIds -> {<<"c">>, <<"c", "_", "x">>}],
          sample_list \in CallSampleLists,
          clinvar_column_name \in {<<"X">>, <<"Z">>},
          calls_src \in {"ok", "no_file"},
          scan_fails \in BOOLEAN, create_ok \in BOOLEAN :
        \E lines \in CallsFiles(ids, pheno_map) :
            /\ fn_args' = [fn |-> "find_sample_variants", calls_src |-> calls_src,
                           lines |-> lines, samples |-> sample_list,
                           clinvar_col |-> clinvar_column_name,
                           consequence_col |-> <<"Y">>,
                           scan_fails |-> scan_fails, create_ok |-> create_ok]
            /\ fn_ret' = find_sample_variants(calls_src, lines, sample_list,
                                              clinvar_column_name, <<"Y">>,
                                              scan_fails, create_ok)
    /\ UNCHANGED runVars

SpecSampleVariants == Init /\ [][FindSampleVariantsCall]_vars

\* the header of pull-variants handed to get_sample_col_indices
SampleColIndicesCall ==
    /\ fn_args = NoCall
    /\ \E ids \in CallIdLists, pheno_map \in [CallIds -> CallScores],
          sample_list \in CallSampleLists :
        /\ fn_args' = [fn |-> "get_sample_col_indices", ids |-> ids,
                       pheno_map |-> pheno_map, samples |-> sample_list]
        /\ fn_ret' = [sample_map |->
                        get_sample_col_indices(mapHeader(CallsHeader(ids, pheno_map)),
                                               sample_list)]
    /\ UNCHANGED runVars

SpecRoundTrip == Init /\ [][SampleColIndicesCall]_vars

-----------------------------------------------------------------------------
(* C28: the exit of view-sample-variants. *)

\* the calls file of the call has a header line with both requested columns
HeaderAndColumnsFound ==
    /\ ParseHeader(fn_args.lines, 1, FALSE).Header_Found
    /\ {fn_args.clinvar_col, fn_args.consequence_col}
           \subseteq DOMAIN ParseHeader(fn_args.lines, 1, FALSE).Header_col_indx

\* the requested samples that have a column in the calls file
SelectedSamples ==
    get_sample_col_indices(ParseHeader(fn_args.lines, 1, FALSE).Header_col_indx,
                           fn_args.samples)

\* C28: when the calls file was read, its header and both requested columns
\* were found and the scan raised no error, find_sample_variants ends
\* normally with the output file written, one line per selected sample.
C28_SuccessWritesOutput ==
    (/\ fn_args.fn = "find_sample_variants"
     /\ fn_args.calls_src = "ok"
     /\ HeaderAndColumnsFound
     /\ ~fn_args.scan_fails
     /\ fn_args.create_ok)
    => /\ fn_ret.exit = "done"
       /\ fn_ret.output.header # <<>>
       /\ Cardinality(fn_ret.output.lines) = Cardinality(SelectedSamples)

-----------------------------------------------------------------------------
(* C30: from the header of pull-variants back to id and score. *)

\* C30: for every sample column id_score that pull-variants writes,
\* get_sample_col_indices gives back the id and the score when the id is
\* requested, and selects nothing for the column when it is not; also for
\* an id or a score that holds an underscore.
C30_RoundTripIdAndScore ==
    fn_args.fn = "get_sample_col_indices"
    => \A i \in 1..Len(fn_args.ids) :
          LET id == fn_args.ids[i]
              requested == \E k \in 1..Len(fn_args.samples) : fn_args.samples[k] = id
              column == {s \in fn_ret.sample_map : s.Index = 9 + i - 1}
          IN  IF requested
              THEN column = {[Index |-> 9 + i - 1, SampleID |-> id,
                              Score |-> fn_args.pheno_map[id]]}
              ELSE column = {}

-----------------------------------------------------------------------------
(* find-all-carriers: the sample mapping of the VCFReader
   (src/internal/files/input_file.go) as FindAllCarrierCalls sets it up. *)

\* strings.ToLower on the letters of the model
LowerOf(c) ==
    CASE c = "N" -> "n" [] c = "A" -> "a" [] c = "S" -> "s" [] OTHER -> c

ToLower(s) == [i \in 1..Len(s) |-> LowerOf(s[i])]

\* strings.Contains(s, substr); the empty string is contained in every string
Contains(s, substr) ==
    \E i \in 0..(Len(s) - Len(substr)) : Slice(s, i + 1, i + Len(substr)) = substr

\* checkSkipSamples: the id is put in lower case, the words are taken as
\* they are
checkSkipSamples(sampleID, skipWordsList) ==
    \E k \in 1..Len(skipWordsList) : Contains(ToLower(sampleID), skipWordsList[k])

\* mapSamples: column index (from 0) -> sample id for the columns from 9 on
\* that are not skipped; split_line[9:] panics on a shorter header
mapSamples(header_line, skipWords) ==
    LET split_line == Fields(header_line)
        kept == {person_pos \in 9..(Len(split_line) - 1) :
                    ~checkSkipSamples(split_line[person_pos + 1], skipWords)}
    IN  [panic |-> Len(split_line) < 9,
         samplesMap |-> [person_pos \in kept |-> split_line[person_pos + 1]]]

\* VCFReader.ParseHeader("#CHROM") from line i on
RECURSIVE VCFReader_ParseHeader(_, _, _, _)
VCFReader_ParseHeader(lines, i, SampleExclusions, scan_fails) ==
    IF i > Len(lines)
    THEN [panic |-> FALSE, Header_Found |-> FALSE, SampleMapping |-> EmptyMap,
          err |-> IF scan_fails THEN "scan" ELSE "nil"]
    ELSE IF ContainsChrom(lines[i])
    THEN [panic |-> mapSamples(lines[i], SampleExclusions).panic,
          Header_Found |-> TRUE,
          SampleMapping |-> mapSamples(lines[i], SampleExclusions).samplesMap,
          err |-> "nil"]
    ELSE VCFReader_ParseHeader(lines, i + 1, SampleExclusions, scan_fails)

\* FindAllCarrierCalls, lines 131-146: the exclusion words are
\* strings.Split(exclusion_substring, ","), which is the one-element list of
\* the empty string when the flag was not given; then the header is parsed,
\* and an error or a missing header ends the run.
FindAllCarrierCalls(exclusion_substring, lines, scan_fails) ==
    LET SampleExclusions == SplitOn(exclusion_substring, {","})
        h == VCFReader_ParseHeader(lines, 1, SampleExclusions, scan_fails)
    IN  [exit |-> IF h.panic THEN "panic"
                  ELSE IF h.err # "nil" \/ ~h.Header_Found THEN "exit1"
                  ELSE "streaming",
         SampleExclusions |-> SampleExclusions,
         SampleMapping |-> h.SampleMapping]

\* sample ids in upper and lower case, and the streams: a header with or
\* without a ## line before it, or no header
CarrierIds == {<<"N", "A", "1">>, <<"n", "a", "2">>, <<"S", "1">>}

CarrierIdLists ==
    {<< <<"N", "A", "1">>, <<"S", "1">> >>, << <<"n", "a", "2">>, <<"N", "A", "1">> >>,
     << <<"S", "1">> >>}

CarrierStreams ==
    UNION {{<<VcfHeader(ids)>>, <<VcfMeta, VcfHeader(ids)>>} : ids \in CarrierIdLists}
    \cup {<<VcfMeta>>, <<>>}

ExclusionAlphabet == {"n", "N", "a", ","}

\* one run of find-all-carriers up to the parsed header
FindAllCarrierCallsOn ==
    /\ fn_args = NoCall
    /\ \E exclusion_substring \in StringsUpTo(ExclusionAlphabet, MaxExclLen),
          lines \in CarrierStreams, scan_fails \in BOOLEAN :
        /\ fn_args' = [fn |-> "FindAllCarrierCalls",
                       exclusion_substring |-> exclusion_substring,
                       lines |-> lines, scan_fails |-> scan_fails]
        /\ fn_ret' = FindAllCarrierCalls(exclusion_substring, lines, scan_fails)
    /\ UNCHANGED runVars

SpecCarriers == Init /\ [][FindAllCarrierCallsOn]_vars

-----------------------------------------------------------------------------
(* C29: the samples left out by the exclusion strings. *)

\* the exclusion substrings the user gave: the pieces between the commas
UserWords ==
    {w \in {SplitOn(fn_args.exclusion_substring, {","})[k] :
                k \in 1..Len(SplitOn(fn_args.exclusion_substring, {","}))} : w # <<>>}

\* the header line of the stream of the call, as its columns
CarrierHeader ==
    Fields(fn_args.lines[CHOOSE i \in 1..Len(fn_args.lines) :
                             ContainsChrom(fn_args.lines[i])])

\* C29: once the header is parsed, a sample column (index 9 on) is missing
\* from the sample mapping exactly when its id contains one of the exclusion
\* substrings the user gave; with no exclusion string every sample column is
\* mapped to its id.
C29_ExcludedIffContainsWord ==
    (fn_args.fn = "FindAllCarrierCalls" /\ fn_ret.exit = "streaming")
    => \A person_pos \in 9..(Len(CarrierHeader) - 1) :
          LET id == CarrierHeader[person_pos + 1]
          IN  /\ person_pos \notin DOMAIN fn_ret.SampleMapping
                 <=> \E w \in UserWords : Contains(id, w)
              /\ person_pos \in DOMAIN fn_ret.SampleMapping
                 => fn_ret.SampleMapping[person_pos] = id

=============================================================================
